---- MODULE Spec2Model ----
(***************************************************************************)
(* Model of the HDFM vulnerability-prioritisation pipeline                 *)
(* (hosahn/lightweight_hdfm): SBOM ingestion, OSV alias de-duplication,    *)
(* topological criticality, entropy weights, contextual branching score,   *)
(* per-component collapse and distribution-aware priority assignment; the   *)
(* KEV cache of the threat-intelligence client and the per-id cache of the *)
(* OSV client under callers that overlap; the chunked batch lookup of the  *)
(* OSV client, the depth of the dependency graph and the repository of     *)
(* analysis results.                                                       *)
(*                                                                         *)
(* Numbers.  The program computes in IEEE doubles.  The model computes in  *)
(* fixed point: the real number r is the integer r * Scale, so 1.0 is      *)
(* Scale, a CVSS score of 9.8 is 98000 and a threshold of 0.7 is 7000.     *)
(* Quotients round towards minus infinity (\div).                          *)
(***************************************************************************)
EXTENDS Integers, Sequences, FiniteSets, TLC

VARIABLES
    \* ---- the analysis pipeline (parse_sbom, analyze) ----
    sbom,            \* the CycloneDX document handed to parse_sbom
    osv_results,     \* frozen port: what batch_lookup_by_purl returns
    metadata_map,    \* frozen port: what get_metadata returns
    epss_table,      \* frozen port: get_epss_score per id
    kev_cache,       \* ThreatIntelClient.kev_cache (frozen during an analysis)
    components,      \* the Component objects parse_sbom returned
    dependencies,    \* the dependency records parse_sbom returned
    pc,              \* position of the pipeline
    tcs_scores,      \* analyze: local tcs_scores
    all_vulns,       \* analyze: local all_vulns, a list of object references
    weights,         \* analyze: local weights
    eta,             \* analyze: local eta
    tau,             \* analyze: the thresholds tau_crit, tau_high
    start_components,\* history: the components as analyze received them
    scored_vulns,    \* history: all_vulns as it was when scoring finished
    returned,        \* the AnalysisResult objects analyze returned, in order
    saved,           \* the repository: every save_analysis call, in order
    epss_calls,      \* history: the findings get_epss_score was called for
    kev_calls,       \* history: the findings is_kev was called for
    port_calls,      \* history: the ports parse_sbom called, in order
    \* ---- OSVVulnerabilityLookup._deduplicate_vulnerabilities ----
    osv_vulns,       \* the argument osv_vulns
    d_idx,           \* number of records the loop has consumed
    vuln_groups,     \* dict vuln_groups, in insertion order
    seen_ids,        \* set seen_ids
    deduplicated,    \* the returned list
    dpc,             \* position of the de-duplication
    \* ---- ThreatIntelClient.sync_data and its readers ----
    sync_pc,         \* position of sync_data
    kev_response,    \* what the KEV feed answered to the running sync_data
    new_cache,       \* sync_data: local new_cache
    kev_i,           \* sync_data: entries of the catalog consumed so far
    kev_before,      \* history: kev_cache when the running sync_data began
    kev_snapshots,   \* history: the complete catalogs the cache was given
    kev_reads,       \* history: what each is_kev call tested membership in
    sync_calls,      \* number of sync_data calls begun
    \* ---- OSVVulnerabilityLookup.lookup_vulnerability and its callers ----
    osv_cache,       \* self.cache: id -> record
    lk,              \* per caller: position, vuln_id, what the call returned
    osv_first,       \* history: the first record stored for each id
    lk_calls,        \* number of lookup_vulnerability calls begun
    \* OSVVulnerabilityLookup.batch_lookup_by_purl
    b_components,    \* the components argument
    chunk_responses, \* what /querybatch answers to each chunk, in order
    osv_full,        \* what /vulns/{id} serves during the call: id -> record
    chunk_i,         \* number of chunks the loop has gone through
    all_results,     \* all_results: bom_ref -> findings
    bpc,             \* "loop" or "returned"
    \* NetworkXGraphAnalyzer.calculate_max_depth on its own
    depth_deps,      \* the dependencies argument
    depth_out,       \* the value returned
    depth_pc,        \* "call" or "returned"
    \* SQLAlchemyRepository: the analyses and vulnerabilities tables
    db_analyses,     \* rows of analyses, in primary-key order
    db_vulns,        \* rows of vulnerabilities, in primary-key order
    repo_saved,      \* history: the (sbom_id, result) save_analysis was called with
    repo_read        \* the last read: operation, sbom_id, value returned

vars == <<sbom, osv_results, metadata_map, epss_table, kev_cache, components,
          dependencies, pc, tcs_scores, all_vulns, weights, eta, tau,
          start_components, scored_vulns, returned, saved, epss_calls,
          kev_calls, port_calls,
          osv_vulns, d_idx, vuln_groups, seen_ids, deduplicated, dpc,
          sync_pc, kev_response, new_cache, kev_i, kev_before, kev_snapshots,
          kev_reads, sync_calls, osv_cache, lk, osv_first, lk_calls,
          b_components, chunk_responses, osv_full, chunk_i, all_results, bpc,
          depth_deps, depth_out, depth_pc,
          db_analyses, db_vulns, repo_saved, repo_read>>

pipeVars == <<sbom, osv_results, metadata_map, epss_table, kev_cache,
              components, dependencies, pc, tcs_scores, all_vulns, weights,
              eta, tau, start_components, scored_vulns, returned, saved,
              epss_calls, kev_calls, port_calls>>

analysisVars == <<sbom, osv_results, metadata_map, epss_table, components,
                  dependencies, pc, tcs_scores, all_vulns, weights, eta, tau,
                  start_components, scored_vulns, returned, saved,
                  epss_calls, kev_calls, port_calls>>

callVars == <<epss_calls, kev_calls, port_calls>>

dedupVars == <<osv_vulns, d_idx, vuln_groups, seen_ids, deduplicated, dpc>>

cacheVars == <<osv_cache, lk, osv_first, lk_calls>>

repoVars == <<db_analyses, db_vulns, repo_saved, repo_read>>

depthVars == <<depth_deps, depth_out, depth_pc>>

batchVars == <<b_components, chunk_responses, osv_full, chunk_i, all_results,
               bpc>>

\* The variables of the operations modelled apart from the pipeline, the
\* de-duplication, the KEV refresh and the single lookup.
extVars == <<batchVars, depthVars, repoVars>>

kevVars == <<sync_pc, kev_response, new_cache, kev_i, kev_before,
             kev_snapshots, kev_reads, sync_calls>>

(***************************************************************************)
(* Fixed-point arithmetic                                                  *)
(***************************************************************************)

\* The fixed-point unit: the float 1.0.
Scale == 10000

Min(a, b) == IF a <= b THEN a ELSE b

Max(a, b) == IF a >= b THEN a ELSE b

\* Float division a / b in fixed point, for a divisor of either sign.
Div(a, b) == IF b > 0 THEN a \div b ELSE (0 - a) \div (0 - b)

RECURSIVE SumSeq(_)
SumSeq(s) == IF s = <<>> THEN 0 ELSE Head(s) + SumSeq(Tail(s))

\* The largest k with 2^k <= n, for n >= 1.
RECURSIVE Log2Floor(_)
Log2Floor(n) == IF n < 2 THEN 0 ELSE 1 + Log2Floor(n \div 2)

RECURSIVE Pow2(_)
Pow2(k) == IF k = 0 THEN 1 ELSE 2 * Pow2(k - 1)

\* a / b rounded to the nearest integer, for b > 0.
RDiv(a, b) == a \div b + (IF 2 * (a % b) >= b THEN 1 ELSE 0)

\* np.log of the integer n >= 1, in fixed point: n = 2^k * y with 1 <= y < 2,
\* ln n = k ln 2 + 2 atanh((y - 1) / (y + 1)), the series cut after z^9.
LnInt(n) ==
    LET k  == Log2Floor(n)
        b  == Pow2(k)
        z  == RDiv((n - b) * Scale, n + b)
        z2 == RDiv(z * z, Scale)
        z3 == RDiv(z * z2, Scale)
        z5 == RDiv(z3 * z2, Scale)
        z7 == RDiv(z5 * z2, Scale)
        z9 == RDiv(z7 * z2, Scale)
    IN  RDiv(k * 693147, 100)
        + RDiv(2 * (315 * z + 105 * z3 + 63 * z5 + 45 * z7 + 35 * z9), 315)

\* np.log of the fixed-point number p > 0.
Ln(p) == LnInt(p) - LnInt(Scale)

(***************************************************************************)
(* Python values                                                           *)
(***************************************************************************)

\* dict.get found no key.
Absent == "<absent>"

\* Python truthiness of an optional string: absent and "" are falsy.
Truthy(s) == s # Absent /\ s # ""

\* dict.get(key, default).
Get(v, default) == IF v = Absent THEN default ELSE v

Str(s) == [kind |-> "str", str |-> s, num |-> 0]

Num(n) == [kind |-> "num", str |-> "", num |-> n]

\* float(s) for the strings the program passes: a number's text converts,
\* anything else raises ValueError.
FloatOfString == [s \in {"0.0", "1.0"} |-> IF s = "1.0" THEN Scale ELSE 0]

RangeOf(s) == {s[i] : i \in DOMAIN s}

\* str.startswith for the identifier prefixes the program tests.
IdPrefix ==
    [id \in {"CVE-1", "CVE-2", "CVE-3", "CVE-4", "GHSA-1", "GHSA-9", "PYSEC-1",
             "HEALTHY", "DEPRECATED", "UNKNOWN"} |->
        CASE id \in {"CVE-1", "CVE-2", "CVE-3", "CVE-4"} -> "CVE-"
          [] id \in {"GHSA-1", "GHSA-9"} -> "GHSA-"
          [] OTHER -> ""]

StartsWith(id, prefix) == IdPrefix[id] = prefix

(***************************************************************************)
(* core/entities.py                                                        *)
(***************************************************************************)

Priorities == {"CRITICAL", "HIGH", "MEDIUM", "LOW"}

\* Vulnerability.__post_init__ on one float field: a string is converted by
\* float(), and to 0.0 when that raises ValueError.
PostInitFloat(v) ==
    IF v.kind = "str"
    THEN IF v.str \in DOMAIN FloatOfString THEN FloatOfString[v.str] ELSE 0
    ELSE v.num

\* Vulnerability(id=, component_ref=, component_name=, cvss_score=,
\* cvss_vector=, description=, severity=): the other fields take their
\* defaults.  A cvss_vector is the sequence of the metrics it is made of, ""
\* the empty one.  description takes no part in any computation and is left
\* out.
Vulnerability(id, component_ref, component_name, cvss_score, cvss_vector, severity) ==
    [id |-> id, component_ref |-> component_ref,
     component_name |-> component_name,
     cvss_score |-> PostInitFloat(cvss_score), cvss_vector |-> cvss_vector,
     severity |-> PostInitFloat(severity),
     tcs |-> 0, vei |-> 0, epss |-> 0, kev |-> FALSE, exploitability |-> 0,
     hdfm_score |-> 0, priority |-> "LOW"]

\* Component(bom_ref=, name=, version=, purl=): no findings, not deprecated.
\* The dataclass has no scope field.  version, published_at and
\* maintenance_risk_score take no part in the analysis and are left out.
Component(bom_ref, name, purl) ==
    [bom_ref |-> bom_ref, name |-> name, purl |-> purl,
     vulnerabilities |-> <<>>, is_deprecated |-> FALSE]

(***************************************************************************)
(* core/hdfm_model.py                                                      *)
(***************************************************************************)

\* key in cvss_vector.
InVector(key, cvss_vector) == key \in RangeOf(cvss_vector)

calculate_vei(cvss_vector) ==
    IF cvss_vector = <<>> THEN 5000
    ELSE IF InVector("AV:N", cvss_vector) THEN 8500
    ELSE IF InVector("AV:A", cvss_vector) THEN 6000
    ELSE IF InVector("AV:L", cvss_vector) THEN 3000
    ELSE IF InVector("AV:P", cvss_vector) THEN 1000
    ELSE 5000

\* A fusion that leaves the KEV membership out.
calculate_exploitability_fusion_EpssOnly(epss, kev) == epss

calculate_exploitability_fusion(epss, kev) ==
    LET p_kev == IF kev THEN Scale ELSE 0
    IN  Scale - ((Scale - epss) * (Scale - p_kev)) \div Scale

MetricCols == <<"severity", "tcs", "vei", "exploitability">>

UniformWeights == [c \in RangeOf(MetricCols) |-> 2500]

\* One column of calculate_entropy_weights: col is the column, m its length.
EntropyWeight(col, m) ==
    LET col_sum == SumSeq(col)
        p_ij    == [i \in DOMAIN col |-> Div(col[i] * Scale, col_sum)]
        terms   == [i \in DOMAIN col |->
                       IF p_ij[i] > 0 THEN p_ij[i] * Ln(p_ij[i]) ELSE 0]
        entropy == RDiv(0 - SumSeq(terms), LnInt(m))
    IN  IF col_sum = 0 THEN 0 ELSE Scale - entropy

\* calculate_entropy_weights(metrics_df): metrics_df is the list of rows.
calculate_entropy_weights(metrics_df) ==
    LET m == Len(metrics_df)
        w == [c \in RangeOf(MetricCols) |->
                 EntropyWeight([i \in DOMAIN metrics_df |-> metrics_df[i][c]], m)]
        total == w["severity"] + w["tcs"] + w["vei"] + w["exploitability"]
    IN  IF m <= 1 THEN UniformWeights
        ELSE IF total = 0 THEN UniformWeights
        ELSE [c \in RangeOf(MetricCols) |-> Div(w[c] * Scale, total)]

\* s with x put before the first element greater than x (s ascending).
RECURSIVE InsertAsc(_, _)
InsertAsc(x, s) ==
    IF s = <<>> THEN <<x>>
    ELSE IF x < Head(s) THEN <<x>> \o s
    ELSE <<Head(s)>> \o InsertAsc(x, Tail(s))

RECURSIVE SortAsc(_)
SortAsc(s) == IF s = <<>> THEN <<>> ELSE InsertAsc(Head(s), SortAsc(Tail(s)))

\* np.median of a non-empty list.
Median(s) ==
    LET a == SortAsc(s)
        n == Len(a)
    IN  IF n % 2 = 1 THEN a[(n + 1) \div 2]
        ELSE (a[n \div 2] + a[n \div 2 + 1]) \div 2

\* calculate_epss_median over the epss values of the findings.
calculate_epss_median(epss_scores) ==
    IF epss_scores = <<>> THEN 0 ELSE Median(epss_scores)

\* weights.get(key, default).
WeightGet(w, key, default) == IF key \in DOMAIN w THEN w[key] ELSE default

BaseScore(vuln, w) ==
    (vuln.exploitability * WeightGet(w, "exploitability", 3000)
     + vuln.severity * WeightGet(w, "severity", 3000)
     + vuln.vei * WeightGet(w, "vei", 1000)
     + vuln.tcs * WeightGet(w, "tcs", 3000)) \div Scale


\* A variant of the branching that tries rule B before rule A.
Branch_BFirst(vuln) ==
    IF vuln.cvss_score >= 90000 /\ vuln.vei >= 8500 /\ vuln.tcs >= 5000
    THEN "B"
    ELSE IF vuln.cvss_score >= 98000 /\ (vuln.tcs >= 7000 /\ vuln.exploitability >= 5000)
    THEN "A"
    ELSE IF vuln.vei >= 8000 /\ vuln.tcs >= 4000
    THEN "C"
    ELSE "D"

\* The branch calculate_hdfm_score takes; the names are the spec's rules
\* (the code's comments call them A, A+, B and C).
Branch(vuln) ==
    IF vuln.cvss_score >= 98000 /\ (vuln.tcs >= 7000 /\ vuln.exploitability >= 5000)
    THEN "A"
    ELSE IF vuln.cvss_score >= 90000 /\ vuln.vei >= 8500 /\ vuln.tcs >= 5000
    THEN "B"
    ELSE IF vuln.vei >= 8000 /\ vuln.tcs >= 4000
    THEN "C"
    ELSE "D"

\* The multiplier of each branch, in tenths.
Multiplier10(b) ==
    CASE b = "A" -> 15 [] b = "B" -> 12 [] b = "C" -> 10 [] OTHER -> 5

calculate_hdfm_score(vuln, w, eta_) ==
    (BaseScore(vuln, w) * Multiplier10(Branch(vuln))) \div 10

\* np.percentile(a, q), linear interpolation, for a non-empty list.
Percentile(s, q) ==
    LET a   == SortAsc(s)
        pos == (Len(a) - 1) * q
        lo  == pos \div 100 + 1
        r   == pos % 100
    IN  IF r = 0 THEN a[lo]
        ELSE a[lo] + ((a[lo + 1] - a[lo]) * r) \div 100

(***************************************************************************)
(* infrastructure/graph/networkx_adapter.py                                *)
(***************************************************************************)

\* How often target occurs in the list depends_on.
RECURSIVE CountIn(_, _)
CountIn(target, depends_on) ==
    IF depends_on = <<>> THEN 0
    ELSE (IF Head(depends_on) = target THEN 1 ELSE 0)
         + CountIn(target, Tail(depends_on))

\* in_degree[target] after the loop over the dependency records.
RECURSIVE InDegree(_, _)
InDegree(deps, target) ==
    IF deps = <<>> THEN 0
    ELSE CountIn(target, Head(deps).dependsOn) + InDegree(Tail(deps), target)

\* The keys of in_degree.
Targets(deps) == UNION {RangeOf(deps[i].dependsOn) : i \in DOMAIN deps}

SetMax(S) == CHOOSE x \in S : \A y \in S : y <= x

\* getattr(comp, 'scope', None).
ScopeOf(comp) == IF "scope" \in DOMAIN comp THEN comp.scope ELSE Absent

calculate_tcs(comps, deps) ==
    LET max_in_degree ==
            IF Targets(deps) = {} THEN 1
            ELSE SetMax({InDegree(deps, t) : t \in Targets(deps)})
        tcs(comp) ==
            LET degree_count      == InDegree(deps, comp.bom_ref)
                normalized_degree == (degree_count * Scale) \div max_in_degree
                scope_val         == ScopeOf(comp)
                scope_priority    == IF scope_val = "required" THEN 10000
                                     ELSE IF scope_val = "optional" THEN 5000
                                     ELSE 6000
            IN  (normalized_degree + scope_priority) \div 2
        \* a later component with the same bom_ref overwrites the entry
        last(ref) == SetMax({i \in DOMAIN comps : comps[i].bom_ref = ref})
    IN  [ref \in {comps[i].bom_ref : i \in DOMAIN comps} |-> tcs(comps[last(ref)])]

\* The edges G.add_edge adds.
Edges(deps) ==
    UNION {{<<deps[i].ref, t>> : t \in RangeOf(deps[i].dependsOn)} : i \in DOMAIN deps}

\* The largest shortest-path length from the frontier on, breadth first.
RECURSIVE BfsDepth(_, _, _, _)
BfsDepth(E, frontier, visited, depth) ==
    LET next == {e[2] : e \in {x \in E : x[1] \in frontier}} \ visited
    IN  IF next = {} THEN depth
        ELSE BfsDepth(E, next, visited \cup next, depth + 1)

\* G.nodes.
Nodes(E) == {e[1] : e \in E} \cup {e[2] : e \in E}

\* roots = [n for n in G.nodes if G.in_degree(n) == 0].
Roots(E) == {n \in Nodes(E) : ~ \E e \in E : e[2] = n}

\* A depth measured from every node, root or not.
calculate_max_depth_AnyStart(deps) ==
    LET E == Edges(deps)
    IN  IF Nodes(E) = {} THEN 0
        ELSE SetMax({BfsDepth(E, {r}, {r}, 0) : r \in Nodes(E)})

calculate_max_depth(deps) ==
    LET E     == Edges(deps)
        nodes == Nodes(E)
        roots == Roots(E)
    IN  IF nodes = {} THEN 0
        ELSE IF roots = {} THEN 0
        ELSE SetMax({BfsDepth(E, {r}, {r}, 0) : r \in roots})

(***************************************************************************)
(* application/service/ingestion_service.py                                *)
(***************************************************************************)

\* One inline vulnerabilities[] entry of the SBOM as a finding.
InlineVulnerability(vuln_data, bom_ref, name) ==
    LET cve_id      == Get(vuln_data.id, "UNKNOWN")
        ratings     == vuln_data.ratings
        cvss_score  == IF ratings # <<>> THEN ratings[1].score ELSE 0
        cvss_vector == IF ratings # <<>> THEN ratings[1].vector ELSE <<>>
    IN  Vulnerability(cve_id, bom_ref, name, Num(cvss_score), cvss_vector,
                      Num(cvss_score \div 10))

\* bom_ref = comp_data.get('bom-ref') or comp_data.get('purl') or comp_data.get('name')
BomRefOf(comp_data) ==
    IF Truthy(comp_data.bom_ref) THEN comp_data.bom_ref
    ELSE IF Truthy(comp_data.purl) THEN comp_data.purl
    ELSE comp_data.name

\* Step 1 of parse_sbom: the components, in order, entries without any
\* identifier skipped.
RECURSIVE ParseComponents(_)
ParseComponents(comp_datas) ==
    IF comp_datas = <<>> THEN <<>>
    ELSE LET comp_data == Head(comp_datas)
             bom_ref   == BomRefOf(comp_data)
             name      == Get(comp_data.name, "Unknown")
             component == [Component(bom_ref, name, comp_data.purl) EXCEPT
                              !.vulnerabilities =
                                  [j \in DOMAIN comp_data.vulnerabilities |->
                                      InlineVulnerability(comp_data.vulnerabilities[j],
                                                          bom_ref, name)]]
         IN  IF ~ Truthy(bom_ref) THEN ParseComponents(Tail(comp_datas))
             ELSE <<component>> \o ParseComponents(Tail(comp_datas))

\* A merge in which the OSV finding wins: the inline findings sharing an id
\* with an OSV finding are dropped and every OSV finding is appended.
MergeOsv_OsvWins(comp, osv) ==
    IF comp.bom_ref \in DOMAIN osv
    THEN LET osv_ids == {osv[comp.bom_ref][j].id : j \in DOMAIN osv[comp.bom_ref]}
             kept(v) == v.id \notin osv_ids
         IN  [comp EXCEPT !.vulnerabilities = SelectSeq(@, kept) \o osv[comp.bom_ref]]
    ELSE comp

\* Step 2 of parse_sbom for one component: the OSV findings whose id no
\* finding of the component had before the merge are appended.
MergeOsv(comp, osv) ==
    IF comp.bom_ref \in DOMAIN osv
    THEN LET existing_ids == {comp.vulnerabilities[j].id : j \in DOMAIN comp.vulnerabilities}
             fresh(v)     == v.id \notin existing_ids
         IN  [comp EXCEPT !.vulnerabilities = @ \o SelectSeq(osv[comp.bom_ref], fresh)]
    ELSE comp

\* The metadata loop of parse_sbom for one component.
ApplyMetadata(comp, meta) ==
    IF comp.bom_ref \in DOMAIN meta
    THEN [comp EXCEPT !.is_deprecated = meta[comp.bom_ref].is_deprecated]
    ELSE comp

\* The components parse_sbom returns for a document with components.
parse_sbom(sbom_data, osv, meta) ==
    LET parsed == ParseComponents(sbom_data.components)
    IN  [i \in DOMAIN parsed |-> ApplyMetadata(MergeOsv(parsed[i], osv), meta)]

(***************************************************************************)
(* infrastructure/clients/threat_intel.py, as the analysis sees it         *)
(***************************************************************************)

\* What api.first.org answers to get_epss_score for an id: status 200 with
\* an epss field ("ok"), no answer within the timeout, a status that
\* raise_for_status rejects, or status 200 with an epss field that is not
\* the text of a number ("bad_epss").
EpssAnswer(kind, epss) == [kind |-> kind, epss |-> epss]

\* get_epss_score raises: float() of a field that is not a number raises
\* ValueError, and "except requests.RequestException" does not catch it.
EpssRaises(table, cve_id) ==
    cve_id \in DOMAIN table /\ table[cve_id].kind = "bad_epss"

\* get_epss_score: data[0].epss of the response; 0.0 when data is empty and
\* when the request raised a RequestException.
get_epss_score(table, cve_id) ==
    IF cve_id \in DOMAIN table /\ table[cve_id].kind = "ok"
    THEN table[cve_id].epss ELSE 0

is_kev(cache, cve_id) == cve_id \in cache

\* What the KEV feed can answer to sync_data's requests.get: no answer within
\* the timeout, a status raise_for_status rejects, a body that is not JSON,
\* or a JSON body (an object or not, with a "vulnerabilities" key or not).
KevResponse(kind, is_object, has_key, vulns) ==
    [kind |-> kind, is_object |-> is_object, has_key |-> has_key,
     vulnerabilities |-> vulns]

KevEntry(cve_id) == [cveID |-> cve_id]

\* sync_data: requests.get or raise_for_status raises RequestException.
RequestFails(resp) == resp.kind \in {"timeout", "http_error"}

\* sync_data: vulnerabilities = data.get('vulnerabilities', []).
CatalogOf(resp) == IF resp.has_key THEN resp.vulnerabilities ELSE <<>>

\* sync_data, one pass of the loop: "if cve_id: new_cache.add(cve_id)".
AddEntry(cache, entry) ==
    IF Truthy(entry.cveID) THEN cache \cup {entry.cveID} ELSE cache

\* A variant of sync_data that fills self.kev_cache in place.
CacheBuiltInPlace(cache, building) == building

\* sync_data while the loop runs: self.kev_cache is not touched, the entries
\* go to the local new_cache.
CacheWhileBuilding(cache, building) == cache

KevIdle ==
    /\ sync_pc = "idle"
    /\ kev_response = KevResponse("none", FALSE, FALSE, <<>>)
    /\ new_cache = {}
    /\ kev_i = 0
    /\ kev_before = {}
    /\ kev_snapshots = {{}}
    /\ kev_reads = <<>>
    /\ sync_calls = 0

(***************************************************************************)
(* application/service/prioritization_service.py: the steps of analyze     *)
(***************************************************************************)

\* A finding is an object; all_vulns holds references <<i, j>> to the j-th
\* finding of the i-th component.
Deref(comps, ref) == comps[ref[1]].vulnerabilities[ref[2]]

\* Step 2, a component with findings: the enrichment of one finding.
Enrich(vuln, comp, tcs, table, cache) ==
    LET epss == get_epss_score(table, vuln.id)
        kev  == is_kev(cache, vuln.id)
    IN  [vuln EXCEPT !.tcs = IF comp.bom_ref \in DOMAIN tcs THEN tcs[comp.bom_ref] ELSE 0,
                     !.vei = calculate_vei(vuln.cvss_vector),
                     !.epss = epss,
                     !.kev = kev,
                     !.exploitability = calculate_exploitability_fusion(epss, kev)]


\* A variant of dummy_vuln that carries the severity 1.0.
Placeholder_SeverityOne(comp) ==
    LET status == IF comp.is_deprecated THEN "DEPRECATED" ELSE "HEALTHY"
    IN  Vulnerability(status, comp.bom_ref, comp.name, Num(0), <<>>, Num(Scale))

\* Step 2, a component without findings: dummy_vuln.
Placeholder(comp) ==
    LET status == IF comp.is_deprecated THEN "DEPRECATED" ELSE "HEALTHY"
    IN  Vulnerability(status, comp.bom_ref, comp.name, Num(0), <<>>, Str("INFO"))

\* Step 2: the components after the loop.
CollectComponents(comps, tcs, table, cache) ==
    [i \in DOMAIN comps |->
        LET vs == comps[i].vulnerabilities
        IN  IF vs # <<>>
            THEN [comps[i] EXCEPT !.vulnerabilities =
                     [j \in DOMAIN vs |-> Enrich(vs[j], comps[i], tcs, table, cache)]]
            ELSE [comps[i] EXCEPT !.vulnerabilities = <<Placeholder(comps[i])>>]]

\* Step 2: all_vulns after the loop, the findings of the components from the
\* i-th on, in order.
RECURSIVE CollectRefs(_, _)
CollectRefs(comps, i) ==
    IF i > Len(comps) THEN <<>>
    ELSE [j \in DOMAIN comps[i].vulnerabilities |-> <<i, j>>]
         \o CollectRefs(comps, i + 1)

\* A variant of Step 2 that looks up every finding of all_vulns, the
\* placeholders it created included.
LookupRefs_All(before, after) == CollectRefs(after, 1)

\* Step 2: the findings handed to get_epss_score and is_kev, in call order:
\* the loop body with the two calls runs for the findings the components
\* carry on entry; the else branch makes no call.
LookupRefs(before, after) == CollectRefs(before, 1)

\* Step 2: the position in the call order of the first finding for which
\* get_epss_score raises, 0 when none does.
RaiseIndex(comps, refs, table) ==
    LET bad == {n \in DOMAIN refs : EpssRaises(table, Deref(comps, refs[n]).id)}
    IN  IF bad = {} THEN 0 ELSE CHOOSE n \in bad : \A m \in bad : n <= m

\* Step 2 left by the exception raised at the finding f: the components and
\* findings before f are done, f has its tcs and vei, the rest is untouched.
CollectUntil(comps, tcs, table, cache, f) ==
    LET done == CollectComponents(comps, tcs, table, cache)
    IN  [i \in DOMAIN comps |->
            IF i < f[1] THEN done[i]
            ELSE IF i > f[1] THEN comps[i]
            ELSE [comps[i] EXCEPT !.vulnerabilities =
                    [j \in DOMAIN comps[i].vulnerabilities |->
                        IF j < f[2] THEN done[i].vulnerabilities[j]
                        ELSE IF j > f[2] THEN comps[i].vulnerabilities[j]
                        ELSE [comps[i].vulnerabilities[j] EXCEPT
                                !.tcs = done[i].vulnerabilities[j].tcs,
                                !.vei = done[i].vulnerabilities[j].vei]]]]

\* Step 3: one row of metrics_df per finding.
MetricsDf(comps, refs) ==
    [k \in DOMAIN refs |->
        LET v == Deref(comps, refs[k])
        IN  [severity |-> v.severity, tcs |-> v.tcs, vei |-> v.vei,
             exploitability |-> v.exploitability]]

\* Step 5: min(vuln.hdfm_score, 1.0).
ClipScore(score) == Min(score, Scale)

\* A variant of Step 5 that leaves the scoring for later.
ScoreComponents_Later(comps, refs, w, eta_) == comps

\* Step 5: the components once every finding of all_vulns is scored.
ScoreComponents(comps, refs, w, eta_) ==
    [i \in DOMAIN comps |->
        LET vs == comps[i].vulnerabilities
        IN  [comps[i] EXCEPT !.vulnerabilities =
                [j \in DOMAIN vs |->
                    IF <<i, j>> \in RangeOf(refs)
                    THEN [vs[j] EXCEPT !.hdfm_score =
                             ClipScore(calculate_hdfm_score(vs[j], w, eta_))]
                    ELSE vs[j]]]]


\* A variant of the collapse that also replaces the entry on an equal score.
CollapseReplaces_OrEqual(vuln, current_best) ==
    vuln.hdfm_score >= current_best.hdfm_score

\* The collapse replaces the entry of a name when this holds.
CollapseReplaces(vuln, current_best) == vuln.hdfm_score > current_best.hdfm_score

\* The collapse: max_vuln_map after the loop over refs, as the list of its
\* values in insertion order (one per component_name).
RECURSIVE CollapseMap(_, _, _)
CollapseMap(comps, refs, map) ==
    IF refs = <<>> THEN map
    ELSE LET vuln == Deref(comps, Head(refs))
             hit  == {k \in DOMAIN map :
                         Deref(comps, map[k]).component_name = vuln.component_name}
             k    == CHOOSE k \in hit : TRUE
         IN  IF hit = {}
             THEN CollapseMap(comps, Tail(refs), Append(map, Head(refs)))
             ELSE IF CollapseReplaces(vuln, Deref(comps, map[k]))
             THEN CollapseMap(comps, Tail(refs), [map EXCEPT ![k] = Head(refs)])
             ELSE CollapseMap(comps, Tail(refs), map)

\* A variant of the insertion that puts ref before the elements of its own
\* score.
RECURSIVE InsertDesc_BeforeEqual(_, _, _)
InsertDesc_BeforeEqual(comps, ref, sorted) ==
    IF sorted = <<>> THEN <<ref>>
    ELSE IF Deref(comps, Head(sorted)).hdfm_score > Deref(comps, ref).hdfm_score
    THEN <<Head(sorted)>> \o InsertDesc_BeforeEqual(comps, ref, Tail(sorted))
    ELSE <<ref>> \o sorted

\* sorted with ref put behind every element whose score is not smaller.
RECURSIVE InsertDesc(_, _, _)
InsertDesc(comps, ref, sorted) ==
    IF sorted = <<>> THEN <<ref>>
    ELSE IF Deref(comps, Head(sorted)).hdfm_score >= Deref(comps, ref).hdfm_score
    THEN <<Head(sorted)>> \o InsertDesc(comps, ref, Tail(sorted))
    ELSE <<ref>> \o sorted

\* Step 6: all_vulns.sort(key=hdfm_score, reverse=True), a stable sort.
RECURSIVE SortDesc(_, _, _)
SortDesc(comps, refs, sorted) ==
    IF refs = <<>> THEN sorted
    ELSE SortDesc(comps, Tail(refs), InsertDesc(comps, Head(refs), sorted))

\* Step 6: tau_crit and tau_high from risky_scores.
Thresholds(risky_scores) ==
    IF risky_scores = <<>>
    THEN [crit |-> 90000, high |-> 70000]
    ELSE [crit |-> Max(Percentile(risky_scores, 90), 70000),
          high |-> Max(Percentile(risky_scores, 70), 40000)]

\* A variant of the priority that takes only the score 0 for healthy.
PriorityOf_ZeroOnly(hdfm_score, t) ==
    IF hdfm_score * 10 = 0 THEN "LOW"
    ELSE IF hdfm_score * 10 >= t.crit THEN "CRITICAL"
    ELSE IF hdfm_score * 10 >= t.high THEN "HIGH"
    ELSE "MEDIUM"

\* Step 6: the priority of one finding.
PriorityOf(hdfm_score, t) ==
    IF hdfm_score * 10 <= 0 THEN "LOW"
    ELSE IF hdfm_score * 10 >= t.crit THEN "CRITICAL"
    ELSE IF hdfm_score * 10 >= t.high THEN "HIGH"
    ELSE "MEDIUM"

\* Step 6: the components once every finding of all_vulns has its priority.
RankComponents(comps, refs, t) ==
    [i \in DOMAIN comps |->
        LET vs == comps[i].vulnerabilities
        IN  [comps[i] EXCEPT !.vulnerabilities =
                [j \in DOMAIN vs |->
                    IF <<i, j>> \in RangeOf(refs)
                    THEN [vs[j] EXCEPT !.priority = PriorityOf(vs[j].hdfm_score, t)]
                    ELSE vs[j]]]]

\* A variant of the hub count with the bar at 0.8.
HubComponents_Above08(tcs) == Cardinality({ref \in DOMAIN tcs : tcs[ref] > 8000})

\* len([s for s in tcs_scores.values() if s > 0.7])
HubComponents(tcs) == Cardinality({ref \in DOMAIN tcs : tcs[ref] > 7000})


\* A variant of the count that takes HIGH findings for critical ones too.
CriticalFindings_WithHigh(comps, refs) ==
    Cardinality({k \in DOMAIN refs :
        Deref(comps, refs[k]).priority \in {"CRITICAL", "HIGH"}})

\* len([v for v in all_vulns if v.priority == Priority.CRITICAL])
CriticalFindings(comps, refs) ==
    Cardinality({k \in DOMAIN refs : Deref(comps, refs[k]).priority = "CRITICAL"})

EmptyDict == [c \in {} |-> 0]

\* The AnalysisResult analyze builds (timestamp left out: it is the clock's).
\* vulnerabilities is the list all_vulns itself: references to the finding
\* objects of the components, not copies of them.
AnalysisResult(sbom_id, comps, deps, tcs, refs, w) ==
    [sbom_id |-> sbom_id,
     total_components |-> Len(comps),
     total_vulnerabilities |-> Len(refs),
     critical_findings |-> CriticalFindings(comps, refs),
     hub_components |-> HubComponents(tcs),
     max_depth |-> calculate_max_depth(deps),
     vulnerabilities |-> refs,
     entropy_weights |-> w]

\* result.vulnerabilities as read now: the present fields of the findings
\* the result refers to.
Findings(comps, result) ==
    [k \in DOMAIN result.vulnerabilities |-> Deref(comps, result.vulnerabilities[k])]

\* The result as read now by whoever holds it.
ResultView(comps, result) ==
    [result EXCEPT !.vulnerabilities = Findings(comps, result)]

\* A variant of the call that files the result under another sbom_id.
save_analysis_OtherId(sbom_id, comps, result) ==
    [sbom_id |-> "other", result |-> ResultView(comps, result), raised |-> FALSE]

\* save_analysis: the rows written, copies of the fields as they are now.
\* raised tells whether the call ended in an exception.
save_analysis(sbom_id, comps, result) ==
    [sbom_id |-> sbom_id, result |-> ResultView(comps, result), raised |-> FALSE]

(***************************************************************************)
(* infrastructure/clients/osv_client.py                                    *)
(***************************************************************************)

\* osv_data.get('aliases', []).
AliasesOf(osv_data) == IF osv_data.aliases = Absent THEN <<>> ELSE osv_data.aliases

\* The ids and aliases of the records of one group.
GroupIds(g_vulns) ==
    UNION {{g_vulns[i].id} \cup RangeOf(AliasesOf(g_vulns[i])) : i \in DOMAIN g_vulns}

\* "Check overlap via ID": the first group holding a record with this id or
\* with this id among its aliases; 0 when there is none.
FindById(groups, vuln_id) ==
    LET hit == {g \in DOMAIN groups :
                   \E i \in DOMAIN groups[g].vulns :
                       \/ groups[g].vulns[i].id = vuln_id
                       \/ vuln_id \in RangeOf(AliasesOf(groups[g].vulns[i]))}
    IN  IF hit = {} THEN 0 ELSE CHOOSE g \in hit : \A h \in hit : g <= h

\* "Check overlap via Aliases": the first group whose ids and aliases hold
\* the id or meet the aliases; 0 when there is none.
FindByAliases(groups, vuln_id, aliases) ==
    LET hit == {g \in DOMAIN groups :
                   \/ vuln_id \in GroupIds(groups[g].vulns)
                   \/ aliases \cap GroupIds(groups[g].vulns) # {}}
    IN  IF hit = {} THEN 0 ELSE CHOOSE g \in hit : \A h \in hit : g <= h

\* found_group for one record, given vuln_groups and seen_ids so far.
FoundGroup(groups, seen, osv_data) ==
    LET vuln_id == Get(osv_data.id, "UNKNOWN")
        aliases == RangeOf(AliasesOf(osv_data))
        by_id   == IF vuln_id \in seen THEN FindById(groups, vuln_id) ELSE 0
    IN  IF by_id # 0 THEN by_id ELSE FindByAliases(groups, vuln_id, aliases)

\* vuln_groups after one pass of the loop of _deduplicate_vulnerabilities:
\* the record joins the group found or starts the group of its own id.  idx
\* is the record's place in osv_vulns, kept beside the record.
AddToGroups(groups, seen, osv_data, idx) ==
    LET vuln_id == Get(osv_data.id, "UNKNOWN")
        found   == FoundGroup(groups, seen, osv_data)
        same    == {g \in DOMAIN groups : groups[g].gid = vuln_id}
        fresh   == [gid |-> vuln_id, vulns |-> <<osv_data>>, idxs |-> <<idx>>]
    IN  IF found # 0
        THEN [groups EXCEPT ![found].vulns = Append(@, osv_data),
                            ![found].idxs = Append(@, idx)]
        ELSE IF same # {}
        THEN [groups EXCEPT ![CHOOSE g \in same : TRUE] = fresh]
        ELSE Append(groups, fresh)

\* The first record of the group whose id has the prefix; 0 when none has.
FirstWithPrefix(osv_group, prefix) ==
    LET hit == {i \in DOMAIN osv_group :
                   StartsWith(Get(osv_group[i].id, ""), prefix)}
    IN  IF hit = {} THEN 0 ELSE CHOOSE i \in hit : \A j \in hit : i <= j


\* A variant of the choice that takes the first-seen record of the group.
pick_best_first_seen(osv_group) == osv_group[1]

\* _pick_best_vulnerability of a non-empty group.
pick_best_vulnerability(osv_group) ==
    IF FirstWithPrefix(osv_group, "CVE-") # 0
    THEN osv_group[FirstWithPrefix(osv_group, "CVE-")]
    ELSE IF FirstWithPrefix(osv_group, "GHSA-") # 0
    THEN osv_group[FirstWithPrefix(osv_group, "GHSA-")]
    ELSE osv_group[1]

\* _parse_cvss_score of a vector.
parse_cvss_score(cvss_vector) ==
    LET has(key) == InVector(key, cvss_vector)
        risk_score ==
            (IF has("AV:N") THEN 30000 ELSE IF has("AV:A") THEN 20000
             ELSE IF has("AV:L") THEN 10000 ELSE 0)
            + (IF has("AC:L") THEN 20000 ELSE 0)
            + (IF has("PR:N") THEN 20000 ELSE 0)
            + (IF has("C:H") THEN 10000 ELSE 0)
            + (IF has("I:H") THEN 10000 ELSE 0)
            + (IF has("A:H") THEN 10000 ELSE 0)
    IN  IF cvss_vector = <<>> THEN 0 ELSE Min(risk_score, 100000)

\* database_specific.severity to a score.
SeverityMap ==
    [label \in {"CRITICAL", "HIGH", "MODERATE", "MEDIUM", "LOW"} |->
        CASE label = "CRITICAL" -> 95000
          [] label = "HIGH" -> 75000
          [] label = "LOW" -> 25000
          [] OTHER -> 50000]

\* The id _convert_osv_to_vulnerability gives the finding: the first CVE-
\* alias of the record when it has one, the record's id otherwise.
ConvertedId(osv_data) ==
    LET aliases == AliasesOf(osv_data)
        cves    == {i \in DOMAIN aliases : StartsWith(aliases[i], "CVE-")}
    IN  IF cves # {} THEN aliases[CHOOSE i \in cves : \A j \in cves : i <= j]
        ELSE Get(osv_data.id, "UNKNOWN")

\* _convert_osv_to_vulnerability.  severity_vector is the score string of the
\* first CVSS_V3 entry of severity[] when it starts with "CVSS:", else "".
convert_osv_to_vulnerability(osv_data, comp) ==
    LET cvss_vector == osv_data.severity_vector
        from_vector == parse_cvss_score(cvss_vector)
        cvss_score  == IF from_vector = 0
                          /\ osv_data.db_severity \in DOMAIN SeverityMap
                       THEN SeverityMap[osv_data.db_severity]
                       ELSE from_vector
    IN  Vulnerability(ConvertedId(osv_data), comp.bom_ref, comp.name,
                      Num(cvss_score), cvss_vector, Num(cvss_score \div 10))

\* "Pick winners": one finding per group, in the order of the groups.
PickWinners(groups, comp) ==
    [g \in DOMAIN groups |->
        convert_osv_to_vulnerability(pick_best_vulnerability(groups[g].vulns), comp)]

(***************************************************************************)
(* Inputs                                                                  *)
(***************************************************************************)

\* The largest number of entries in the components array of the SBOM.
MaxComps == 2

\* The largest number of analyze calls on the components of one parse.
MaxRuns == 2

VecN == <<"CVSS:3.1", "AV:N", "AC:L", "PR:N", "UI:N", "S:U", "C:H", "I:H", "A:H">>

VecL == <<"CVSS:3.1", "AV:L", "AC:H", "PR:L", "UI:R", "S:U", "C:L", "I:L", "A:N">>

Rating(score, vector) == <<[score |-> score, vector |-> vector]>>

\* Inline vulnerabilities[] entries: a critical network finding, two equal
\* medium network findings, a score the SBOM got wrong, an entry with
\* neither id nor ratings.
D1 == [id |-> "CVE-1", ratings |-> Rating(100000, VecN)]

D2 == [id |-> "CVE-2", ratings |-> Rating(61000, VecN)]

D3 == [id |-> "CVE-3", ratings |-> Rating(0 - 500000, VecL)]

D4 == [id |-> "CVE-4", ratings |-> Rating(61000, VecN)]

D5 == [id |-> Absent, ratings |-> <<>>]

CompData(bom_ref, purl, name, scope, vulnerabilities) ==
    [bom_ref |-> bom_ref, purl |-> purl, name |-> name, scope |-> scope,
     vulnerabilities |-> vulnerabilities]

\* The entries a components array is made of.
CompDatas ==
    {CompData("a", Absent, "lib", "required", <<>>),
     CompData("a", Absent, "lib", "required", <<D1>>),
     CompData("b", Absent, "lib", "excluded", <<D2, D1>>),
     CompData("b", Absent, "app", "optional", <<D2, D4>>),
     CompData("b", Absent, "app", Absent, <<D5>>),
     CompData(Absent, "pkg:pypi/c@1", Absent, Absent, <<D3>>),
     CompData(Absent, Absent, Absent, Absent, <<>>)}

Dep(ref, dependsOn) == [ref |-> ref, dependsOn |-> dependsOn]

\* The dependencies arrays.
DependencyLists ==
    {<<>>,
     <<Dep("root", <<"a", "b">>), Dep("a", <<"b">>)>>,
     <<Dep("root", <<"a">>), Dep("b", <<"a">>), Dep("a", <<"b">>)>>}

SeqsUpTo(S, n) == UNION {[1..k -> S] : k \in 0..n}

\* The SBOM documents: components absent, or an array of up to MaxComps.
Sboms ==
    {[has_components |-> FALSE, components |-> <<>>, dependencies |-> d] :
        d \in {<<>>}}
    \cup {[has_components |-> TRUE, components |-> c, dependencies |-> d] :
            c \in SeqsUpTo(CompDatas, MaxComps), d \in DependencyLists}

\* What batch_lookup_by_purl returns: nothing, or for "a" a finding with the
\* id of an inline one and a finding of its own.
OsvResults ==
    {EmptyDict,
     [r \in {"a"} |->
        <<Vulnerability("CVE-1", "a", "lib", Num(95000), <<>>, Num(9500)),
          Vulnerability("GHSA-9", "a", "lib", Num(75000), VecN, Num(7500))>>]}

\* What get_metadata returns.
MetadataMaps ==
    {EmptyDict,
     [r \in {"a", "b"} |-> [is_deprecated |-> r = "a"]]}

\* What the EPSS API answers.
EpssTables ==
    {EmptyDict,
     [id \in {"CVE-1", "CVE-2", "CVE-4"} |->
        EpssAnswer("ok", IF id = "CVE-1" THEN 5000 ELSE 200)],
     [id \in {"CVE-1", "CVE-2", "CVE-4"} |->
        CASE id = "CVE-1" -> EpssAnswer("timeout", 0)
          [] id = "CVE-2" -> EpssAnswer("http_error", 0)
          [] OTHER -> EpssAnswer("bad_epss", 0)]}

\* The EPSS service is in trouble: some request is not answered with a score.
EpssTrouble(table) == \E id \in DOMAIN table : table[id].kind # "ok"

\* The KEV catalog as cached.
KevCaches == {{}, {"CVE-1"}}

SbomId == "sbom-1"

\* The ports an analysis runs against: no port has data, one port has, the
\* two threat-intelligence sources have, or all four have; a troubled EPSS
\* service comes with the other ports silent.
PortSettings ==
    {p \in [osv : OsvResults, meta : MetadataMaps, epss : EpssTables,
            kev : KevCaches] :
        LET with_data == {q \in {"osv", "meta", "epss", "kev"} :
                            CASE q = "osv" -> p.osv # EmptyDict
                              [] q = "meta" -> p.meta # EmptyDict
                              [] q = "epss" -> p.epss # EmptyDict
                              [] OTHER -> p.kev # {}}
        IN  IF EpssTrouble(p.epss) THEN with_data = {"epss"}
            ELSE \/ Cardinality(with_data) <= 1
                 \/ with_data = {"epss", "kev"}
                 \/ with_data = {"osv", "meta", "epss", "kev"}}

(***************************************************************************)
(* The pipeline                                                            *)
(***************************************************************************)

\* No batch_lookup_by_purl call is under way.
BatchIdle ==
    /\ b_components = <<>>
    /\ chunk_responses = <<>>
    /\ osv_full = EmptyDict
    /\ chunk_i = 0
    /\ all_results = EmptyDict
    /\ bpc = "returned"

\* No calculate_max_depth call of its own is under way.
DepthIdle ==
    /\ depth_deps = <<>>
    /\ depth_out = 0
    /\ depth_pc = "returned"

\* Empty tables, nothing read yet.
RepoIdle ==
    /\ db_analyses = <<>>
    /\ db_vulns = <<>>
    /\ repo_saved = <<>>
    /\ repo_read = [op |-> "none", sbom_id |-> "", at |-> 0, out |-> <<>>]

ExtIdle == BatchIdle /\ DepthIdle /\ RepoIdle

\* OSVVulnerabilityLookup.__init__: self.cache = {}, nobody is calling.
CacheIdle ==
    /\ osv_cache = EmptyDict
    /\ lk = <<>>
    /\ osv_first = EmptyDict
    /\ lk_calls = 0

DedupIdle ==
    /\ osv_vulns = <<>>
    /\ d_idx = 0
    /\ vuln_groups = <<>>
    /\ seen_ids = {}
    /\ deduplicated = <<>>
    /\ dpc = "idle"

Init ==
    /\ sbom \in Sboms
    /\ \E p \in PortSettings :
        /\ osv_results = p.osv
        /\ metadata_map = p.meta
        /\ epss_table = p.epss
        /\ kev_cache = p.kev
    /\ components = <<>>
    /\ dependencies = <<>>
    /\ pc = "parse"
    /\ tcs_scores = EmptyDict
    /\ all_vulns = <<>>
    /\ weights = EmptyDict
    /\ eta = 0
    /\ tau = [crit |-> 0, high |-> 0]
    /\ start_components = <<>>
    /\ scored_vulns = <<>>
    /\ returned = <<>>
    /\ saved = <<>>
    /\ epss_calls = <<>>
    /\ kev_calls = <<>>
    /\ port_calls = <<>>
    /\ DedupIdle
    /\ KevIdle
    /\ CacheIdle
    /\ ExtIdle

\* A variant of the test that lets an empty components array pass.
NoComponents_AbsentOnly(sbom_data) == ~ sbom_data.has_components

\* "not sbom_data.get('components')": the key is missing or the array empty.
NoComponents(sbom_data) ==
    ~ sbom_data.has_components \/ sbom_data.components = <<>>

\* parse_sbom raises InvalidSBOMException: components absent or empty.
ParseInvalid ==
    /\ pc = "parse"
    /\ NoComponents(sbom)
    /\ pc' = "invalid"
    /\ UNCHANGED <<sbom, osv_results, metadata_map, epss_table, kev_cache,
                   components, dependencies, tcs_scores, all_vulns, weights,
                   eta, tau, start_components, scored_vulns, returned, saved>>
    /\ UNCHANGED callVars
    /\ UNCHANGED dedupVars
    /\ UNCHANGED kevVars
    /\ UNCHANGED cacheVars
    /\ UNCHANGED extVars

\* parse_sbom returns (components, dependencies).
ParseSbom ==
    /\ pc = "parse"
    /\ ~ NoComponents(sbom)
    /\ components' = parse_sbom(sbom, osv_results, metadata_map)
    /\ dependencies' = sbom.dependencies
    /\ port_calls' = <<"batch_lookup_by_purl", "get_metadata">>
    /\ pc' = "parsed"
    /\ UNCHANGED <<sbom, osv_results, metadata_map, epss_table, kev_cache,
                   tcs_scores, all_vulns, weights, eta, tau, start_components,
                   scored_vulns, returned, saved>>
    /\ UNCHANGED <<epss_calls, kev_calls>>
    /\ UNCHANGED dedupVars
    /\ UNCHANGED kevVars
    /\ UNCHANGED cacheVars
    /\ UNCHANGED extVars

\* analyze, Steps 1 and 2: called on the components parse_sbom returned, the
\* first time or again.
AnalyzeCollect ==
    /\ pc = "parsed" \/ (pc = "done" /\ Len(returned) < MaxRuns)
    /\ RaiseIndex(components, CollectRefs(components, 1), epss_table) = 0
    /\ LET tcs   == calculate_tcs(components, dependencies)
           comps == CollectComponents(components, tcs, epss_table, kev_cache)
       IN  /\ tcs_scores' = tcs
           /\ components' = comps
           /\ all_vulns' = CollectRefs(comps, 1)
           /\ epss_calls' = LookupRefs(components, comps)
           /\ kev_calls' = LookupRefs(components, comps)
           /\ pc' = IF CollectRefs(comps, 1) = <<>> THEN "empty" ELSE "weights"
    /\ start_components' = components
    /\ weights' = EmptyDict
    /\ eta' = 0
    /\ tau' = [crit |-> 0, high |-> 0]
    /\ scored_vulns' = <<>>
    /\ UNCHANGED <<sbom, osv_results, metadata_map, epss_table, kev_cache,
                   dependencies, returned, saved, port_calls>>
    /\ UNCHANGED dedupVars
    /\ UNCHANGED kevVars
    /\ UNCHANGED cacheVars
    /\ UNCHANGED extVars

\* analyze, Steps 1 and 2 when get_epss_score raises: the exception leaves the
\* loop, "except Exception as e: print(e)" ends analyze, which returns None;
\* nothing is saved.  The objects the loop had reached stay as it left them.
AnalyzeRaise ==
    /\ pc = "parsed" \/ (pc = "done" /\ Len(returned) < MaxRuns)
    /\ RaiseIndex(components, CollectRefs(components, 1), epss_table) # 0
    /\ LET tcs  == calculate_tcs(components, dependencies)
           refs == CollectRefs(components, 1)
           n    == RaiseIndex(components, refs, epss_table)
       IN  /\ tcs_scores' = tcs
           /\ components' = CollectUntil(components, tcs, epss_table, kev_cache, refs[n])
           /\ epss_calls' = SubSeq(refs, 1, n)
           /\ kev_calls' = SubSeq(refs, 1, n - 1)
    /\ pc' = "failed"
    /\ start_components' = components
    /\ all_vulns' = <<>>
    /\ weights' = EmptyDict
    /\ eta' = 0
    /\ tau' = [crit |-> 0, high |-> 0]
    /\ scored_vulns' = <<>>
    /\ UNCHANGED <<sbom, osv_results, metadata_map, epss_table, kev_cache,
                   dependencies, returned, saved, port_calls>>
    /\ UNCHANGED dedupVars
    /\ UNCHANGED kevVars
    /\ UNCHANGED cacheVars
    /\ UNCHANGED extVars

\* analyze, "if not all_vulns": the result without findings is saved and returned.
AnalyzeEmpty ==
    /\ pc = "empty"
    /\ LET result == [sbom_id |-> SbomId,
                      total_components |-> Len(components),
                      total_vulnerabilities |-> 0,
                      critical_findings |-> 0,
                      hub_components |-> HubComponents(tcs_scores),
                      max_depth |-> calculate_max_depth(dependencies),
                      vulnerabilities |-> <<>>,
                      entropy_weights |-> EmptyDict]
       IN  /\ saved' = Append(saved, save_analysis(SbomId, components, result))
           /\ returned' = Append(returned, result)
    /\ pc' = "done"
    /\ UNCHANGED <<sbom, osv_results, metadata_map, epss_table, kev_cache,
                   components, dependencies, tcs_scores, all_vulns, weights,
                   eta, tau, start_components, scored_vulns>>
    /\ UNCHANGED callVars
    /\ UNCHANGED dedupVars
    /\ UNCHANGED kevVars
    /\ UNCHANGED cacheVars
    /\ UNCHANGED extVars

\* analyze, Steps 3 and 4: the entropy weights and eta.
AnalyzeWeights ==
    /\ pc = "weights"
    /\ weights' = calculate_entropy_weights(MetricsDf(components, all_vulns))
    /\ eta' = calculate_epss_median(
                  [k \in DOMAIN all_vulns |-> Deref(components, all_vulns[k]).epss])
    /\ pc' = "score"
    /\ UNCHANGED <<sbom, osv_results, metadata_map, epss_table, kev_cache,
                   components, dependencies, tcs_scores, all_vulns, tau,
                   start_components, scored_vulns, returned, saved>>
    /\ UNCHANGED callVars
    /\ UNCHANGED dedupVars
    /\ UNCHANGED kevVars
    /\ UNCHANGED cacheVars
    /\ UNCHANGED extVars

\* analyze, Step 5: the raw scores.
AnalyzeScore ==
    /\ pc = "score"
    /\ components' = ScoreComponents(components, all_vulns, weights, eta)
    /\ pc' = "collapse"
    /\ UNCHANGED <<sbom, osv_results, metadata_map, epss_table, kev_cache,
                   dependencies, tcs_scores, all_vulns, weights, eta, tau,
                   start_components, scored_vulns, returned, saved>>
    /\ UNCHANGED callVars
    /\ UNCHANGED dedupVars
    /\ UNCHANGED kevVars
    /\ UNCHANGED cacheVars
    /\ UNCHANGED extVars

\* analyze, the per-component collapse.
AnalyzeCollapse ==
    /\ pc = "collapse"
    /\ scored_vulns' = all_vulns
    /\ all_vulns' = CollapseMap(components, all_vulns, <<>>)
    /\ pc' = "rank"
    /\ UNCHANGED <<sbom, osv_results, metadata_map, epss_table, kev_cache,
                   components, dependencies, tcs_scores, weights, eta, tau,
                   start_components, returned, saved>>
    /\ UNCHANGED callVars
    /\ UNCHANGED dedupVars
    /\ UNCHANGED kevVars
    /\ UNCHANGED cacheVars
    /\ UNCHANGED extVars

\* analyze, Step 6: the sort, the thresholds and the priorities.
AnalyzeRank ==
    /\ pc = "rank"
    /\ LET sorted == SortDesc(components, all_vulns, <<>>)
           scores == [k \in DOMAIN sorted |-> Deref(components, sorted[k]).hdfm_score]
           risky_scores == SelectSeq(scores, LAMBDA x : x > 0)
           t == Thresholds(risky_scores)
       IN  /\ all_vulns' = sorted
           /\ tau' = t
           /\ components' = RankComponents(components, sorted, t)
    /\ pc' = "emit"
    /\ UNCHANGED <<sbom, osv_results, metadata_map, epss_table, kev_cache,
                   dependencies, tcs_scores, weights, eta, start_components,
                   scored_vulns, returned, saved>>
    /\ UNCHANGED callVars
    /\ UNCHANGED dedupVars
    /\ UNCHANGED kevVars
    /\ UNCHANGED cacheVars
    /\ UNCHANGED extVars

\* analyze, the result is built, saved and returned.
AnalyzeEmit ==
    /\ pc = "emit"
    /\ LET result == AnalysisResult(SbomId, components, dependencies,
                                    tcs_scores, all_vulns, weights)
       IN  /\ saved' = Append(saved, save_analysis(SbomId, components, result))
           /\ returned' = Append(returned, result)
    /\ pc' = "done"
    /\ UNCHANGED <<sbom, osv_results, metadata_map, epss_table, kev_cache,
                   components, dependencies, tcs_scores, all_vulns, weights,
                   eta, tau, start_components, scored_vulns>>
    /\ UNCHANGED callVars
    /\ UNCHANGED dedupVars
    /\ UNCHANGED kevVars
    /\ UNCHANGED cacheVars
    /\ UNCHANGED extVars

\* analyze, either call of save_analysis raises (the database rejects the
\* rows or the commit): "except Exception as e: print(e)" ends analyze, which
\* returns None.
AnalyzeSaveRaises ==
    /\ pc \in {"empty", "emit"}
    /\ LET result == IF pc = "empty"
                     THEN [sbom_id |-> SbomId,
                           total_components |-> Len(components),
                           total_vulnerabilities |-> 0,
                           critical_findings |-> 0,
                           hub_components |-> HubComponents(tcs_scores),
                           max_depth |-> calculate_max_depth(dependencies),
                           vulnerabilities |-> <<>>,
                           entropy_weights |-> EmptyDict]
                     ELSE AnalysisResult(SbomId, components, dependencies,
                                         tcs_scores, all_vulns, weights)
       IN  saved' = Append(saved, [save_analysis(SbomId, components, result)
                                       EXCEPT !.raised = TRUE])
    /\ pc' = "failed"
    /\ all_vulns' = <<>>
    /\ weights' = EmptyDict
    /\ eta' = 0
    /\ tau' = [crit |-> 0, high |-> 0]
    /\ scored_vulns' = <<>>
    /\ UNCHANGED <<sbom, osv_results, metadata_map, epss_table, kev_cache,
                   components, dependencies, tcs_scores, start_components,
                   returned>>
    /\ UNCHANGED callVars
    /\ UNCHANGED dedupVars
    /\ UNCHANGED kevVars
    /\ UNCHANGED cacheVars
    /\ UNCHANGED extVars

Next ==
    \/ ParseInvalid
    \/ ParseSbom
    \/ AnalyzeCollect
    \/ AnalyzeRaise
    \/ AnalyzeEmpty
    \/ AnalyzeWeights
    \/ AnalyzeScore
    \/ AnalyzeCollapse
    \/ AnalyzeRank
    \/ AnalyzeEmit
    \/ AnalyzeSaveRaises

Spec == Init /\ [][Next]_vars

(***************************************************************************)
(* _deduplicate_vulnerabilities on its own                                 *)
(***************************************************************************)

\* The largest number of OSV records returned for one component.
MaxRecs == 3

DedupIds == {"CVE-1", "CVE-2", "GHSA-1", "PYSEC-1"}

OsvRecord(id, aliases) ==
    [id |-> id, aliases |-> aliases, severity_vector |-> <<>>,
     db_severity |-> IF id = "CVE-1" THEN "HIGH" ELSE Absent]

\* The OSV records: every id without aliases and with each other id as its
\* one alias, and two records with two aliases.
OsvRecords ==
    {OsvRecord(id, <<>>) : id \in DedupIds}
    \cup UNION {{OsvRecord(id, <<a>>) : a \in DedupIds \ {id}} : id \in DedupIds}
    \cup {OsvRecord("CVE-1", <<"PYSEC-1", "GHSA-1">>),
          OsvRecord("PYSEC-1", <<"GHSA-1", "CVE-2">>)}

\* The component whose findings are de-duplicated.
DedupComp == Component("a", "lib", "pkg:pypi/lib@1")

AnalysisIdle ==
    /\ sbom = [has_components |-> FALSE, components |-> <<>>, dependencies |-> <<>>]
    /\ osv_results = EmptyDict
    /\ metadata_map = EmptyDict
    /\ epss_table = EmptyDict
    /\ components = <<>>
    /\ dependencies = <<>>
    /\ pc = "idle"
    /\ tcs_scores = EmptyDict
    /\ all_vulns = <<>>
    /\ weights = EmptyDict
    /\ eta = 0
    /\ tau = [crit |-> 0, high |-> 0]
    /\ start_components = <<>>
    /\ scored_vulns = <<>>
    /\ returned = <<>>
    /\ saved = <<>>
    /\ epss_calls = <<>>
    /\ kev_calls = <<>>
    /\ port_calls = <<>>

PipeIdle == AnalysisIdle /\ kev_cache = {}

InitDedup ==
    /\ PipeIdle
    /\ KevIdle
    /\ CacheIdle
    /\ osv_vulns \in SeqsUpTo(OsvRecords, MaxRecs)
    /\ d_idx = 0
    /\ vuln_groups = <<>>
    /\ seen_ids = {}
    /\ deduplicated = <<>>
    /\ dpc = "loop"
    /\ ExtIdle

\* One pass of "for osv_data in osv_vulns".
DedupRecord ==
    /\ dpc = "loop"
    /\ d_idx < Len(osv_vulns)
    /\ LET osv_data == osv_vulns[d_idx + 1]
       IN  /\ vuln_groups' = AddToGroups(vuln_groups, seen_ids, osv_data, d_idx + 1)
           /\ seen_ids' = seen_ids \cup {Get(osv_data.id, "UNKNOWN")}
                                   \cup RangeOf(AliasesOf(osv_data))
    /\ d_idx' = d_idx + 1
    /\ UNCHANGED <<osv_vulns, deduplicated, dpc>>
    /\ UNCHANGED pipeVars
    /\ UNCHANGED kevVars
    /\ UNCHANGED cacheVars
    /\ UNCHANGED extVars

\* "Pick winners" and return.
DedupPick ==
    /\ dpc = "loop"
    /\ d_idx = Len(osv_vulns)
    /\ deduplicated' = PickWinners(vuln_groups, DedupComp)
    /\ dpc' = "done"
    /\ UNCHANGED <<osv_vulns, d_idx, vuln_groups, seen_ids>>
    /\ UNCHANGED pipeVars
    /\ UNCHANGED kevVars
    /\ UNCHANGED cacheVars
    /\ UNCHANGED extVars

NextDedup == DedupRecord \/ DedupPick

SpecDedup == InitDedup /\ [][NextDedup]_vars

(***************************************************************************)
(* ThreatIntelClient.sync_data, with is_kev readers at any moment          *)
(***************************************************************************)

MaxSyncs == 2

MaxReads == 2

KevCatalogs ==
    {<<>>,
     <<KevEntry("CVE-1")>>,
     <<KevEntry("CVE-1"), KevEntry("CVE-2")>>,
     <<KevEntry(Absent), KevEntry("CVE-2")>>}

KevResponses ==
    {KevResponse("timeout", FALSE, FALSE, <<>>),
     KevResponse("http_error", FALSE, FALSE, <<>>),
     KevResponse("bad_json", FALSE, FALSE, <<>>),
     KevResponse("json", FALSE, FALSE, <<>>),
     KevResponse("json", TRUE, FALSE, <<>>)}
    \cup {KevResponse("json", TRUE, TRUE, c) : c \in KevCatalogs}

\* __init__: self.kev_cache = set(); the first sync_data follows.
InitKev ==
    /\ AnalysisIdle
    /\ DedupIdle
    /\ kev_cache = {}
    /\ KevIdle
    /\ CacheIdle
    /\ ExtIdle

\* sync_data is entered and the feed answers.
SyncStart ==
    /\ sync_pc = "idle"
    /\ sync_calls < MaxSyncs
    /\ kev_response' \in KevResponses
    /\ kev_before' = kev_cache
    /\ sync_calls' = sync_calls + 1
    /\ sync_pc' = "get"
    /\ UNCHANGED <<kev_cache, new_cache, kev_i, kev_snapshots, kev_reads>>
    /\ UNCHANGED analysisVars
    /\ UNCHANGED dedupVars
    /\ UNCHANGED cacheVars
    /\ UNCHANGED extVars

\* "except requests.RequestException": the error is printed, the cache stays.
\* response.json() on a body that is not JSON raises a RequestException in
\* the requests releases that define requests.JSONDecodeError.
SyncFail ==
    /\ sync_pc = "get"
    /\ RequestFails(kev_response) \/ kev_response.kind = "bad_json"
    /\ sync_pc' = "idle"
    /\ UNCHANGED <<kev_cache, kev_response, new_cache, kev_i, kev_before,
                   kev_snapshots, kev_reads, sync_calls>>
    /\ UNCHANGED analysisVars
    /\ UNCHANGED dedupVars
    /\ UNCHANGED cacheVars
    /\ UNCHANGED extVars

\* An exception sync_data does not catch: the ValueError of response.json()
\* in the older requests releases, the AttributeError of data.get on a JSON
\* body that is not an object.  The caller receives it; no assignment ran.
SyncRaise ==
    /\ sync_pc = "get"
    /\ \/ kev_response.kind = "bad_json"
       \/ kev_response.kind = "json" /\ ~ kev_response.is_object
    /\ sync_pc' = "raised"
    /\ UNCHANGED <<kev_cache, kev_response, new_cache, kev_i, kev_before,
                   kev_snapshots, kev_reads, sync_calls>>
    /\ UNCHANGED analysisVars
    /\ UNCHANGED dedupVars
    /\ UNCHANGED cacheVars
    /\ UNCHANGED extVars

\* The caller of a sync_data that raised goes on; the client is as it was.
SyncResume ==
    /\ sync_pc = "raised"
    /\ sync_pc' = "idle"
    /\ UNCHANGED <<kev_cache, kev_response, new_cache, kev_i, kev_before,
                   kev_snapshots, kev_reads, sync_calls>>
    /\ UNCHANGED analysisVars
    /\ UNCHANGED dedupVars
    /\ UNCHANGED cacheVars
    /\ UNCHANGED extVars

\* data = response.json(); new_cache = set(); vulnerabilities = data.get(...).
SyncParse ==
    /\ sync_pc = "get"
    /\ kev_response.kind = "json" /\ kev_response.is_object
    /\ new_cache' = {}
    /\ kev_i' = 0
    /\ kev_snapshots' = kev_snapshots \cup
            {{e.cveID : e \in {x \in RangeOf(CatalogOf(kev_response)) : Truthy(x.cveID)}}}
    /\ sync_pc' = "loop"
    /\ UNCHANGED <<kev_cache, kev_response, kev_before, kev_reads, sync_calls>>
    /\ UNCHANGED analysisVars
    /\ UNCHANGED dedupVars
    /\ UNCHANGED cacheVars
    /\ UNCHANGED extVars

\* One pass of "for vuln in vulnerabilities".
SyncAdd ==
    /\ sync_pc = "loop"
    /\ kev_i < Len(CatalogOf(kev_response))
    /\ new_cache' = AddEntry(new_cache, CatalogOf(kev_response)[kev_i + 1])
    /\ kev_i' = kev_i + 1
    /\ kev_cache' = CacheWhileBuilding(kev_cache, new_cache')
    /\ UNCHANGED <<sync_pc, kev_response, kev_before, kev_snapshots, kev_reads,
                   sync_calls>>
    /\ UNCHANGED analysisVars
    /\ UNCHANGED dedupVars
    /\ UNCHANGED cacheVars
    /\ UNCHANGED extVars

\* self.kev_cache = new_cache.
SyncPublish ==
    /\ sync_pc = "loop"
    /\ kev_i = Len(CatalogOf(kev_response))
    /\ kev_cache' = new_cache
    /\ sync_pc' = "idle"
    /\ UNCHANGED <<kev_response, new_cache, kev_i, kev_before, kev_snapshots,
                   kev_reads, sync_calls>>
    /\ UNCHANGED analysisVars
    /\ UNCHANGED dedupVars
    /\ UNCHANGED cacheVars
    /\ UNCHANGED extVars

\* is_kev, called by a reader at any moment: "cve_id in self.kev_cache"
\* loads the attribute once and tests membership in that set.
IsKevRead ==
    /\ Len(kev_reads) < MaxReads
    /\ kev_reads' = Append(kev_reads, [at |-> sync_pc, i |-> kev_i,
                                       old |-> kev_before, seen |-> kev_cache])
    /\ UNCHANGED <<kev_cache, sync_pc, kev_response, new_cache, kev_i,
                   kev_before, kev_snapshots, sync_calls>>
    /\ UNCHANGED analysisVars
    /\ UNCHANGED dedupVars
    /\ UNCHANGED cacheVars
    /\ UNCHANGED extVars

NextKev ==
    \/ SyncStart
    \/ SyncFail
    \/ SyncRaise
    \/ SyncResume
    \/ SyncParse
    \/ SyncAdd
    \/ SyncPublish
    \/ IsKevRead

SpecKev == InitKev /\ [][NextKev]_vars

(***************************************************************************)
(* OSVVulnerabilityLookup.lookup_vulnerability, called by several callers  *)
(* on the one instance the application builds                              *)
(***************************************************************************)

MaxLookers == 2

MaxLookups == 3

Lookers == 1 .. MaxLookers

LookupIds == {"CVE-1", "GHSA-1"}

\* What api.osv.dev serves for an id with status 200: the record as first
\* published, or the record after upstream added an alias to it.
Upstream(vuln_id) ==
    {OsvRecord(vuln_id, <<>>), OsvRecord(vuln_id, <<"PYSEC-1">>)}

\* dict assignment self.cache[vuln_id] = vuln.
Put(cache, key, value) ==
    [k \in DOMAIN cache \cup {key} |-> IF k = key THEN value ELSE cache[k]]

Call(at, vuln_id, outcome, ret) ==
    [pc |-> at, id |-> vuln_id, outcome |-> outcome, ret |-> ret]

NoRecord == OsvRecord(Absent, <<>>)

InitLookup ==
    /\ PipeIdle
    /\ DedupIdle
    /\ KevIdle
    /\ osv_cache = EmptyDict
    /\ lk = [t \in Lookers |-> Call("idle", Absent, "none", NoRecord)]
    /\ osv_first = EmptyDict
    /\ lk_calls = 0
    /\ ExtIdle

\* "if vuln_id in self.cache: return self.cache[vuln_id]".
LookupHit(t, vuln_id) ==
    /\ lk[t].pc = "idle"
    /\ lk_calls < MaxLookups
    /\ vuln_id \in DOMAIN osv_cache
    /\ lk' = [lk EXCEPT ![t] = Call("returned", vuln_id, "hit", osv_cache[vuln_id])]
    /\ lk_calls' = lk_calls + 1
    /\ UNCHANGED <<osv_cache, osv_first>>
    /\ UNCHANGED pipeVars
    /\ UNCHANGED dedupVars
    /\ UNCHANGED kevVars
    /\ UNCHANGED extVars

\* The id is not cached: requests.get is issued.
LookupMiss(t, vuln_id) ==
    /\ lk[t].pc = "idle"
    /\ lk_calls < MaxLookups
    /\ vuln_id \notin DOMAIN osv_cache
    /\ lk' = [lk EXCEPT ![t] = Call("request", vuln_id, "none", NoRecord)]
    /\ lk_calls' = lk_calls + 1
    /\ UNCHANGED <<osv_cache, osv_first>>
    /\ UNCHANGED pipeVars
    /\ UNCHANGED dedupVars
    /\ UNCHANGED kevVars
    /\ UNCHANGED extVars

\* "if response.status_code != 200: return None".
LookupNon200(t) ==
    /\ lk[t].pc = "request"
    /\ lk' = [lk EXCEPT ![t] = Call("returned", lk[t].id, "non200", NoRecord)]
    /\ UNCHANGED <<osv_cache, osv_first, lk_calls>>
    /\ UNCHANGED pipeVars
    /\ UNCHANGED dedupVars
    /\ UNCHANGED kevVars
    /\ UNCHANGED extVars

\* "except Exception": timeout, connection error, a body that is not JSON.
LookupExcept(t) ==
    /\ lk[t].pc = "request"
    /\ lk' = [lk EXCEPT ![t] = Call("returned", lk[t].id, "exception", NoRecord)]
    /\ UNCHANGED <<osv_cache, osv_first, lk_calls>>
    /\ UNCHANGED pipeVars
    /\ UNCHANGED dedupVars
    /\ UNCHANGED kevVars
    /\ UNCHANGED extVars

\* Status 200: vuln = response.json(); self.cache[vuln_id] = vuln; return vuln.
LookupStore(t) ==
    /\ lk[t].pc = "request"
    /\ \E vuln \in Upstream(lk[t].id) :
        /\ osv_cache' = Put(osv_cache, lk[t].id, vuln)
        /\ osv_first' = IF lk[t].id \in DOMAIN osv_first THEN osv_first
                         ELSE Put(osv_first, lk[t].id, vuln)
        /\ lk' = [lk EXCEPT ![t] = Call("returned", lk[t].id, "stored", vuln)]
    /\ UNCHANGED lk_calls
    /\ UNCHANGED pipeVars
    /\ UNCHANGED dedupVars
    /\ UNCHANGED kevVars
    /\ UNCHANGED extVars

\* The caller takes the value and is free to call again.
LookupDone(t) ==
    /\ lk[t].pc = "returned"
    /\ lk' = [lk EXCEPT ![t] = Call("idle", Absent, "none", NoRecord)]
    /\ UNCHANGED <<osv_cache, osv_first, lk_calls>>
    /\ UNCHANGED pipeVars
    /\ UNCHANGED dedupVars
    /\ UNCHANGED kevVars
    /\ UNCHANGED extVars

NextLookup ==
    \E t \in Lookers :
        \/ \E vuln_id \in LookupIds : LookupHit(t, vuln_id)
        \/ \E vuln_id \in LookupIds : LookupMiss(t, vuln_id)
        \/ LookupNon200(t)
        \/ LookupExcept(t)
        \/ LookupStore(t)
        \/ LookupDone(t)

SpecLookup == InitLookup /\ [][NextLookup]_vars

(***************************************************************************)
(* OSVVulnerabilityLookup.batch_lookup_by_purl                             *)
(***************************************************************************)

\* The largest number of components handed to batch_lookup_by_purl.
MaxBatchComps == 3

\* chunk_size, 1000 in the code, scaled down so that a call of a few
\* components goes through more than one chunk.
chunk_size == 2

\* _construct_purl_from_component for the components of the model: a bom_ref
\* that is a package URL is taken; the plain names used here carry none of
\* the markers (npm, pypi, python, maven, "@", ".") the other branches test.
construct_purl_from_component(comp) ==
    IF comp.bom_ref \in {"pkg:a", "pkg:b", "pkg:c"} THEN comp.bom_ref ELSE Absent

\* "Build Query": the components a query is sent for, in order; queries[n]
\* is the query of component_map[n].
Queries(comps) ==
    SelectSeq(comps, LAMBDA comp :
        Truthy(IF Truthy(comp.purl) THEN comp.purl
               ELSE construct_purl_from_component(comp)))

\* range(0, len(queries), chunk_size): the number of chunks.
NumChunks(queries) == (Len(queries) + chunk_size - 1) \div chunk_size

\* queries[i:i + chunk_size] for the c-th chunk, i = (c - 1) * chunk_size.
ChunkOf(queries, c) ==
    SubSeq(queries, (c - 1) * chunk_size + 1, Min(c * chunk_size, Len(queries)))

\* lookup_vulnerability called from the batch, with no other caller around:
\* the record returned (found = FALSE for None) and the cache afterwards.
LookupSeq(cache, full, vuln_id) ==
    IF vuln_id \in DOMAIN cache
    THEN [found |-> TRUE, ret |-> cache[vuln_id], cache |-> cache]
    ELSE IF vuln_id \in DOMAIN full
    THEN [found |-> TRUE, ret |-> full[vuln_id],
          cache |-> Put(cache, vuln_id, full[vuln_id])]
    ELSE [found |-> FALSE, ret |-> NoRecord, cache |-> cache]

\* "Hydrate Data": a record without aliases is replaced by the full record
\* when lookup_vulnerability returns one; hydrated_vulns and the cache.
RECURSIVE Hydrate(_, _, _)
Hydrate(raw_vulns, cache, full) ==
    IF raw_vulns = <<>> THEN [vulns |-> <<>>, cache |-> cache]
    ELSE LET v    == Head(raw_vulns)
             look == LookupSeq(cache, full, Get(v.id, ""))
             one  == IF AliasesOf(v) = <<>>
                     THEN [vuln |-> IF look.found THEN look.ret ELSE v,
                           cache |-> look.cache]
                     ELSE [vuln |-> v, cache |-> cache]
             rest == Hydrate(Tail(raw_vulns), one.cache, full)
         IN  [vulns |-> <<one.vuln>> \o rest.vulns, cache |-> rest.cache]

\* The loop "for osv_data in osv_vulns" of _deduplicate_vulnerabilities from
\* record idx on.
RECURSIVE GroupAll(_, _, _, _)
GroupAll(records, idx, groups, seen) ==
    IF idx > Len(records) THEN groups
    ELSE LET osv_data == records[idx]
         IN  GroupAll(records, idx + 1,
                      AddToGroups(groups, seen, osv_data, idx),
                      seen \cup {Get(osv_data.id, "UNKNOWN")}
                           \cup RangeOf(AliasesOf(osv_data)))

deduplicate_vulnerabilities(records, comp) ==
    PickWinners(GroupAll(records, 1, <<>>, {}), comp)

\* One entry of results[]: its vulns list, or a vulns value that is no list
\* and makes the loop over it raise.
QueryResult(is_list, vulns) == [is_list |-> is_list, vulns |-> vulns]

\* What /querybatch answers to a chunk: status 200 with results[], another
\* status, or no answer (timeout, connection error).
ChunkResponse(kind, results) == [kind |-> kind, results |-> results]

\* The request of the chunk failed.
ChunkFailed(resp) == resp.kind \in {"non200", "exception"}

\* "for idx, result in enumerate(results)" from entry idx on, for the chunk
\* that starts after `base` queries: all_results and the cache when the loop
\* ends or an entry raises.
RECURSIVE ProcessResults(_, _, _, _, _, _, _)
ProcessResults(results, idx, base, queries, acc, cache, full) ==
    IF idx > Len(results) THEN [all_results |-> acc, cache |-> cache, raised |-> FALSE]
    ELSE IF base + idx > Len(queries)
    THEN ProcessResults(results, idx + 1, base, queries, acc, cache, full)
    ELSE IF ~ results[idx].is_list
    THEN [all_results |-> acc, cache |-> cache, raised |-> TRUE]
    ELSE LET comp       == queries[base + idx]
             hydrated   == Hydrate(results[idx].vulns, cache, full)
             comp_vulns == deduplicate_vulnerabilities(hydrated.vulns, comp)
             acc2       == IF hydrated.vulns # <<>> /\ comp_vulns # <<>>
                           THEN Put(acc, comp.bom_ref, comp_vulns)
                           ELSE acc
         IN  ProcessResults(results, idx + 1, base, queries, acc2,
                            hydrated.cache, full)

\* The components of the call: three a query is sent for, with the package
\* URL as purl or as bom_ref only, and one no query can be built for.
BatchComps ==
    {Component("pkg:a", "liba", "pkg:a"),
     Component("pkg:b", "libb", Absent),
     Component("pkg:c", "libc", "pkg:c"),
     Component("d", "libd", Absent)}

\* The records /querybatch reports: slim ones, and one carrying its alias.
QueryResults ==
    {QueryResult(TRUE, <<>>),
     QueryResult(TRUE, <<OsvRecord("GHSA-1", <<>>)>>),
     QueryResult(TRUE, <<OsvRecord("GHSA-1", <<"CVE-2">>), OsvRecord("CVE-2", <<>>)>>),
     QueryResult(FALSE, <<>>)}

\* What /vulns/{id} serves: nothing (every single lookup fails), or the full
\* records.
FullRecords ==
    {EmptyDict,
     [id \in {"GHSA-1", "CVE-2"} |->
        IF id = "GHSA-1" THEN OsvRecord("GHSA-1", <<"CVE-2">>)
        ELSE OsvRecord("CVE-2", <<"GHSA-1">>)]}

\* The answers a chunk of n queries can get.
ChunkResponses(n) ==
    {ChunkResponse("non200", <<>>), ChunkResponse("exception", <<>>)}
    \cup {ChunkResponse("ok", r) : r \in [1 .. n -> QueryResults]}

\* A call of batch_lookup_by_purl on a fresh client is entered; the answers
\* the service will give are the environment's choice.
InitBatch ==
    /\ PipeIdle
    /\ DedupIdle
    /\ KevIdle
    /\ CacheIdle
    /\ b_components \in SeqsUpTo(BatchComps, MaxBatchComps)
    /\ chunk_responses \in
        {r \in SeqsUpTo(ChunkResponses(1) \cup ChunkResponses(chunk_size),
                        NumChunks(Queries(b_components))) :
            /\ Len(r) = NumChunks(Queries(b_components))
            /\ \A c \in DOMAIN r :
                r[c] \in ChunkResponses(Len(ChunkOf(Queries(b_components), c)))}
    /\ osv_full \in FullRecords
    /\ chunk_i = 0
    /\ all_results = EmptyDict
    /\ bpc = "loop"
    /\ DepthIdle
    /\ RepoIdle

\* "if not queries: return {}".
BatchNoQueries ==
    /\ bpc = "loop"
    /\ Queries(b_components) = <<>>
    /\ bpc' = "returned"
    /\ UNCHANGED <<b_components, chunk_responses, osv_full, chunk_i, all_results>>
    /\ UNCHANGED pipeVars
    /\ UNCHANGED dedupVars
    /\ UNCHANGED kevVars
    /\ UNCHANGED cacheVars
    /\ UNCHANGED depthVars
    /\ UNCHANGED repoVars

\* requests.post raises or times out: "except Exception", logged, continue.
BatchChunkExcept ==
    /\ bpc = "loop"
    /\ chunk_i < NumChunks(Queries(b_components))
    /\ chunk_responses[chunk_i + 1].kind = "exception"
    /\ chunk_i' = chunk_i + 1
    /\ UNCHANGED <<b_components, chunk_responses, osv_full, all_results, bpc>>
    /\ UNCHANGED pipeVars
    /\ UNCHANGED dedupVars
    /\ UNCHANGED kevVars
    /\ UNCHANGED cacheVars
    /\ UNCHANGED depthVars
    /\ UNCHANGED repoVars

\* "if response.status_code != 200": logged, continue.
BatchChunkNon200 ==
    /\ bpc = "loop"
    /\ chunk_i < NumChunks(Queries(b_components))
    /\ chunk_responses[chunk_i + 1].kind = "non200"
    /\ chunk_i' = chunk_i + 1
    /\ UNCHANGED <<b_components, chunk_responses, osv_full, all_results, bpc>>
    /\ UNCHANGED pipeVars
    /\ UNCHANGED dedupVars
    /\ UNCHANGED kevVars
    /\ UNCHANGED cacheVars
    /\ UNCHANGED depthVars
    /\ UNCHANGED repoVars

\* Status 200: the results of the chunk are hydrated, de-duplicated and
\* stored under the bom_ref of their component; an entry that raises ends the
\* chunk with what was stored before it.
BatchChunkOk ==
    /\ bpc = "loop"
    /\ chunk_i < NumChunks(Queries(b_components))
    /\ chunk_responses[chunk_i + 1].kind = "ok"
    /\ LET done == ProcessResults(chunk_responses[chunk_i + 1].results, 1,
                                  chunk_i * chunk_size, Queries(b_components),
                                  all_results, osv_cache, osv_full)
       IN  /\ all_results' = done.all_results
           /\ osv_cache' = done.cache
    /\ chunk_i' = chunk_i + 1
    /\ UNCHANGED <<b_components, chunk_responses, osv_full, bpc>>
    /\ UNCHANGED <<lk, osv_first, lk_calls>>
    /\ UNCHANGED pipeVars
    /\ UNCHANGED dedupVars
    /\ UNCHANGED kevVars
    /\ UNCHANGED depthVars
    /\ UNCHANGED repoVars

\* "return all_results".
BatchReturn ==
    /\ bpc = "loop"
    /\ Queries(b_components) # <<>>
    /\ chunk_i = NumChunks(Queries(b_components))
    /\ bpc' = "returned"
    /\ UNCHANGED <<b_components, chunk_responses, osv_full, chunk_i, all_results>>
    /\ UNCHANGED pipeVars
    /\ UNCHANGED dedupVars
    /\ UNCHANGED kevVars
    /\ UNCHANGED cacheVars
    /\ UNCHANGED depthVars
    /\ UNCHANGED repoVars

NextBatch ==
    \/ BatchNoQueries
    \/ BatchChunkExcept
    \/ BatchChunkNon200
    \/ BatchChunkOk
    \/ BatchReturn

SpecBatch == InitBatch /\ [][NextBatch]_vars

(***************************************************************************)
(* NetworkXGraphAnalyzer.calculate_max_depth on dependency lists of its    *)
(* own                                                                     *)
(***************************************************************************)

\* The largest number of dependency records in the list.
MaxDepRecs == 2

DepNodes == {"a", "b", "c"}

\* The dependsOn lists: up to two components, the same one twice included.
DependsOnLists ==
    {<<>>}
    \cup {<<x>> : x \in DepNodes}
    \cup {<<x, y>> : x, y \in DepNodes}

\* The dependency lists: every record has its ref and a dependsOn list.
DepthInputs ==
    SeqsUpTo({Dep(ref, d) : ref \in DepNodes, d \in DependsOnLists}, MaxDepRecs)

InitDepth ==
    /\ PipeIdle
    /\ DedupIdle
    /\ KevIdle
    /\ CacheIdle
    /\ BatchIdle
    /\ depth_deps \in DepthInputs
    /\ depth_out = 0
    /\ depth_pc = "call"
    /\ RepoIdle

\* "if len(G.nodes) == 0: return 0".
DepthNoNodes ==
    /\ depth_pc = "call"
    /\ Nodes(Edges(depth_deps)) = {}
    /\ depth_out' = calculate_max_depth(depth_deps)
    /\ depth_pc' = "returned"
    /\ UNCHANGED depth_deps
    /\ UNCHANGED pipeVars
    /\ UNCHANGED dedupVars
    /\ UNCHANGED kevVars
    /\ UNCHANGED cacheVars
    /\ UNCHANGED batchVars
    /\ UNCHANGED repoVars

\* "if not roots: return 0".
DepthNoRoots ==
    /\ depth_pc = "call"
    /\ Nodes(Edges(depth_deps)) # {}
    /\ Roots(Edges(depth_deps)) = {}
    /\ depth_out' = calculate_max_depth(depth_deps)
    /\ depth_pc' = "returned"
    /\ UNCHANGED depth_deps
    /\ UNCHANGED pipeVars
    /\ UNCHANGED dedupVars
    /\ UNCHANGED kevVars
    /\ UNCHANGED cacheVars
    /\ UNCHANGED batchVars
    /\ UNCHANGED repoVars

\* "return max_depth" after the loop over the roots.
DepthFromRoots ==
    /\ depth_pc = "call"
    /\ Roots(Edges(depth_deps)) # {}
    /\ depth_out' = calculate_max_depth(depth_deps)
    /\ depth_pc' = "returned"
    /\ UNCHANGED depth_deps
    /\ UNCHANGED pipeVars
    /\ UNCHANGED dedupVars
    /\ UNCHANGED kevVars
    /\ UNCHANGED cacheVars
    /\ UNCHANGED batchVars
    /\ UNCHANGED repoVars

NextDepth == DepthNoNodes \/ DepthNoRoots \/ DepthFromRoots

SpecDepth == InitDepth /\ [][NextDepth]_vars

(***************************************************************************)
(* SQLAlchemyRepository: save_analysis, get_latest_analysis,               *)
(* get_all_analyses                                                        *)
(***************************************************************************)

\* The largest number of save_analysis calls.
MaxSaves == 3

\* The clock readings a result can carry as its timestamp.
RepoTimes == {1, 2}

\* json.dumps of the weights dict: the items in insertion order.
JsonDumps(d) ==
    LET keys == SelectSeq(MetricCols, LAMBDA key : key \in DOMAIN d)
    IN  [k \in DOMAIN keys |-> <<keys[k], d[keys[k]]>>]

\* json.loads of that text.
JsonLoads(text) ==
    [key \in {text[k][1] : k \in DOMAIN text} |->
        text[CHOOSE k \in DOMAIN text : text[k][1] = key][2]]

\* AnalysisModel(...) as save_analysis fills it; id is the key the flush
\* assigns.
AnalysisModel(id, sbom_id, result) ==
    [id |-> id, sbom_id |-> sbom_id, timestamp |-> result.timestamp,
     total_components |-> result.total_components,
     total_vulnerabilities |-> result.total_vulnerabilities,
     critical_findings |-> result.critical_findings,
     hub_components |-> result.hub_components,
     max_depth |-> result.max_depth,
     entropy_weights |-> JsonDumps(result.entropy_weights)]

\* VulnerabilityModel(...) for one finding of the result; priority is the
\* value of the enum member.
VulnerabilityModel(analysis_id, vuln) ==
    [analysis_id |-> analysis_id, cve_id |-> vuln.id,
     component_ref |-> vuln.component_ref,
     component_name |-> vuln.component_name,
     cvss_score |-> vuln.cvss_score, cvss_vector |-> vuln.cvss_vector,
     severity |-> vuln.severity, tcs |-> vuln.tcs, vei |-> vuln.vei,
     epss |-> vuln.epss, kev |-> vuln.kev,
     exploitability |-> vuln.exploitability,
     hdfm_score |-> vuln.hdfm_score, priority |-> vuln.priority]

\* _convert_to_domain: analysis.vulnerabilities are the rows of the
\* vulnerabilities table with the analysis' key, read in primary-key order.
convert_to_domain(analysis, vulns) ==
    LET mine == SelectSeq(vulns, LAMBDA v : v.analysis_id = analysis.id)
    IN  [sbom_id |-> analysis.sbom_id, timestamp |-> analysis.timestamp,
         total_components |-> analysis.total_components,
         total_vulnerabilities |-> analysis.total_vulnerabilities,
         critical_findings |-> analysis.critical_findings,
         hub_components |-> analysis.hub_components,
         max_depth |-> analysis.max_depth,
         vulnerabilities |->
            [k \in DOMAIN mine |->
                [Vulnerability(mine[k].cve_id, mine[k].component_ref,
                               mine[k].component_name, Num(mine[k].cvss_score),
                               mine[k].cvss_vector, Num(mine[k].severity))
                 EXCEPT !.tcs = mine[k].tcs, !.vei = mine[k].vei,
                        !.epss = mine[k].epss, !.kev = mine[k].kev,
                        !.exploitability = mine[k].exploitability,
                        !.hdfm_score = mine[k].hdfm_score,
                        !.priority = mine[k].priority]],
         entropy_weights |-> JsonLoads(analysis.entropy_weights)]

\* A variant of the WHERE clause that lets every row through.
WhereSbomId_Any(rows, sbom_id) == {k \in DOMAIN rows : TRUE}

\* .where(AnalysisModel.sbom_id == sbom_id): the places of the rows selected.
WhereSbomId(rows, sbom_id) == {k \in DOMAIN rows : rows[k].sbom_id = sbom_id}

\* .order_by(desc(AnalysisModel.timestamp)): the orders the database may
\* return the selected rows in; rows with equal timestamps come in any order.
OrderByTimestampDesc(rows, selected) ==
    {o \in [1 .. Cardinality(selected) -> selected] :
        /\ \A i, j \in DOMAIN o : o[i] = o[j] => i = j
        /\ \A i, j \in DOMAIN o : i < j => rows[o[i]].timestamp >= rows[o[j]].timestamp}

RepoSbomIds == {"sbom-1", "sbom-2"}

\* The findings of the results that are saved: one ranked CRITICAL and a
\* placeholder.
RepoFindings ==
    <<[Vulnerability("CVE-1", "a", "lib", Num(100000), VecN, Num(Scale))
       EXCEPT !.tcs = 8000, !.vei = 8500, !.epss = 9700, !.kev = TRUE,
              !.exploitability = Scale, !.hdfm_score = Scale,
              !.priority = "CRITICAL"],
      Vulnerability("HEALTHY", "b", "app", Num(0), <<>>, Str("INFO"))>>

\* The results analyze hands to save_analysis: the one of the path without
\* findings and one with findings.
RepoResults(sbom_id, timestamp) ==
    {[sbom_id |-> sbom_id, timestamp |-> timestamp, total_components |-> 0,
      total_vulnerabilities |-> 0, critical_findings |-> 0,
      hub_components |-> 0, max_depth |-> 0, vulnerabilities |-> <<>>,
      entropy_weights |-> EmptyDict],
     [sbom_id |-> sbom_id, timestamp |-> timestamp, total_components |-> 2,
      total_vulnerabilities |-> 2, critical_findings |-> 1,
      hub_components |-> 1, max_depth |-> 1, vulnerabilities |-> RepoFindings,
      entropy_weights |-> UniformWeights]}

InitRepo ==
    /\ PipeIdle
    /\ DedupIdle
    /\ KevIdle
    /\ CacheIdle
    /\ BatchIdle
    /\ DepthIdle
    /\ RepoIdle

\* save_analysis(sbom_id, result): the analysis row and one row per finding
\* are added and committed.
RepoSave ==
    /\ Len(repo_saved) < MaxSaves
    /\ \E sbom_id \in RepoSbomIds, timestamp \in RepoTimes :
        \E result \in RepoResults(sbom_id, timestamp) :
            LET id == Len(db_analyses) + 1
            IN  /\ db_analyses' = Append(db_analyses, AnalysisModel(id, sbom_id, result))
                /\ db_vulns' = db_vulns \o
                       [k \in DOMAIN result.vulnerabilities |->
                           VulnerabilityModel(id, result.vulnerabilities[k])]
                /\ repo_saved' = Append(repo_saved, [sbom_id |-> sbom_id, result |-> result])
    /\ UNCHANGED repo_read
    /\ UNCHANGED pipeVars
    /\ UNCHANGED dedupVars
    /\ UNCHANGED kevVars
    /\ UNCHANGED cacheVars
    /\ UNCHANGED batchVars
    /\ UNCHANGED depthVars

\* get_all_analyses(sbom_id).
RepoGetAll ==
    /\ \E sbom_id \in RepoSbomIds :
        \E o \in OrderByTimestampDesc(db_analyses, WhereSbomId(db_analyses, sbom_id)) :
            repo_read' = [op |-> "get_all_analyses", sbom_id |-> sbom_id,
                          at |-> Len(repo_saved),
                          out |-> [k \in DOMAIN o |->
                                      convert_to_domain(db_analyses[o[k]], db_vulns)]]
    /\ UNCHANGED <<db_analyses, db_vulns, repo_saved>>
    /\ UNCHANGED pipeVars
    /\ UNCHANGED dedupVars
    /\ UNCHANGED kevVars
    /\ UNCHANGED cacheVars
    /\ UNCHANGED batchVars
    /\ UNCHANGED depthVars

\* get_latest_analysis(sbom_id): the first row under the same order, None
\* (the empty list here) when no row is selected.
RepoGetLatest ==
    /\ \E sbom_id \in RepoSbomIds :
        \E o \in OrderByTimestampDesc(db_analyses, WhereSbomId(db_analyses, sbom_id)) :
            repo_read' = [op |-> "get_latest_analysis", sbom_id |-> sbom_id,
                          at |-> Len(repo_saved),
                          out |-> IF o = <<>> THEN <<>>
                                  ELSE <<convert_to_domain(db_analyses[o[1]], db_vulns)>>]
    /\ UNCHANGED <<db_analyses, db_vulns, repo_saved>>
    /\ UNCHANGED pipeVars
    /\ UNCHANGED dedupVars
    /\ UNCHANGED kevVars
    /\ UNCHANGED cacheVars
    /\ UNCHANGED batchVars
    /\ UNCHANGED depthVars

NextRepo == RepoSave \/ RepoGetAll \/ RepoGetLatest

SpecRepo == InitRepo /\ [][NextRepo]_vars

(***************************************************************************)
(* The pipeline on the fixtures "healthy tree" and "hidden test            *)
(* dependency"                                                             *)
(***************************************************************************)

S1Refs == <<"c1", "c2", "c3", "c4", "c5", "c6", "c7", "c8", "c9", "c10">>

\* A root that depends directly on ten components without vulnerabilities,
\* all declared with the one scope.
S1(scope) ==
    [has_components |-> TRUE,
     components |-> [k \in DOMAIN S1Refs |->
                        CompData(S1Refs[k], Absent, S1Refs[k], scope, <<>>)],
     dependencies |-> <<Dep("root", S1Refs)>>]

\* vm2 (CVSS 10.0, scope excluded) below mocha; requests (CVSS 6.1, scope
\* required) directly below the root.
S3 ==
    [has_components |-> TRUE,
     components |-> <<CompData("mocha", Absent, "mocha", "excluded", <<>>),
                      CompData("vm2", Absent, "vm2", "excluded", <<D1>>),
                      CompData("requests", Absent, "requests", "required", <<D2>>)>>,
     dependencies |-> <<Dep("root", <<"mocha", "requests">>),
                        Dep("mocha", <<"vm2">>)>>]

\* create_component(group, name, version): bom-ref and purl are the same
\* package URL, a pypi one when a group is given.
create_component(group, name, version) ==
    LET purl == IF Truthy(group) THEN "pkg:pypi/" \o name \o "@" \o version
                ELSE "pkg:npm/" \o name \o "@" \o version
    IN  CompData(purl, purl, name, Absent, <<>>)

\* The ten clean libraries generate_scenario_A_real hangs directly below the
\* root.
safe_libs ==
    <<<<"express", "4.18.2">>, <<"lodash", "4.17.21">>, <<"axios", "1.6.0">>,
      <<"chalk", "4.1.2">>, <<"debug", "4.3.4">>, <<"commander", "9.4.1">>,
      <<"uuid", "9.0.0">>, <<"rxjs", "7.8.0">>, <<"tslib", "2.5.0">>,
      <<"zone.js", "0.13.0">>>>

S2Noise == [k \in DOMAIN safe_libs |-> create_component(Absent, safe_libs[k][1], safe_libs[k][2])]

S2C1 == create_component(Absent, "internal-analytics", "1.0.0")

S2C2 == create_component(Absent, "report-generator", "2.5.0")

S2C3 == create_component("Django", "django", "3.2.0")

S2Django == S2C3.bom_ref

\* generate_scenario_A_real: root-app -> internal-analytics ->
\* report-generator -> django 3.2.0, and the ten clean libraries directly
\* below the root; one dependency record for the root and one per component,
\* in the order deps_map was filled.
S2 ==
    [has_components |-> TRUE,
     components |-> <<S2C1, S2C2, S2C3>> \o S2Noise,
     dependencies |->
        <<Dep("root-app", <<S2C1.bom_ref>> \o [k \in DOMAIN S2Noise |-> S2Noise[k].bom_ref]),
          Dep(S2C1.bom_ref, <<S2C2.bom_ref>>),
          Dep(S2C2.bom_ref, <<S2C3.bom_ref>>),
          Dep(S2C3.bom_ref, <<>>)>>
        \o [k \in DOMAIN S2Noise |-> Dep(S2Noise[k].bom_ref, <<>>)]]

\* What the vulnerability lookup returns for django 3.2.0: CVE-2022-28346,
\* CVSS 10.0 with a network vector.
S2Osv ==
    [r \in {S2Django} |->
        <<Vulnerability("CVE-2022-28346", S2Django, "django", Num(100000), VecN,
                        Num(Scale))>>]

\* EPSS 0.97 for CVE-2022-28346.
S2Epss == [id \in {"CVE-2022-28346"} |-> EpssAnswer("ok", 9700)]

\* CVE-2022-28346 is in the KEV catalog.
S2Kev == {"CVE-2022-28346"}

ScenarioSboms == {S1(scope) : scope \in {Absent, "required", "optional"}} \cup {S3}

\* What get_metadata returns for the fixtures: nothing, one deprecated
\* component, every component deprecated.
ScenarioMetadata ==
    {EmptyDict,
     [r \in {"c1", "mocha"} |-> [is_deprecated |-> TRUE]],
     [r \in RangeOf(S1Refs) |-> [is_deprecated |-> TRUE]]}

\* The ports a fixture is analysed against: the healthy tree and the hidden
\* test dependency without OSV data and with any threat intelligence, the
\* deep real CVE with or without each of its three sources.
ScenarioSettings ==
    [sbom : ScenarioSboms, osv : {EmptyDict}, meta : ScenarioMetadata,
     epss : EpssTables, kev : KevCaches]
    \cup [sbom : {S2}, osv : {EmptyDict, S2Osv}, meta : {EmptyDict},
          epss : {EmptyDict, S2Epss}, kev : {{}, S2Kev}]

InitScenario ==
    /\ \E p \in ScenarioSettings :
        /\ sbom = p.sbom
        /\ osv_results = p.osv
        /\ metadata_map = p.meta
        /\ epss_table = p.epss
        /\ kev_cache = p.kev
    /\ components = <<>>
    /\ dependencies = <<>>
    /\ pc = "parse"
    /\ tcs_scores = EmptyDict
    /\ all_vulns = <<>>
    /\ weights = EmptyDict
    /\ eta = 0
    /\ tau = [crit |-> 0, high |-> 0]
    /\ start_components = <<>>
    /\ scored_vulns = <<>>
    /\ returned = <<>>
    /\ saved = <<>>
    /\ epss_calls = <<>>
    /\ kev_calls = <<>>
    /\ port_calls = <<>>
    /\ DedupIdle
    /\ KevIdle
    /\ CacheIdle
    /\ ExtIdle

NextScenario ==
    \/ ParseSbom
    \/ AnalyzeCollect
    \/ AnalyzeWeights
    \/ AnalyzeScore
    \/ AnalyzeCollapse
    \/ AnalyzeRank
    \/ AnalyzeEmit

SpecScenario == InitScenario /\ [][NextScenario]_vars

(***************************************************************************)
(* Properties of the pipeline (specification Spec)                         *)
(***************************************************************************)

\* The components parse_sbom returned have pairwise distinct bom_ref.
DistinctBomRefs(comps) ==
    \A i, j \in DOMAIN comps : comps[i].bom_ref = comps[j].bom_ref => i = j

\* C1: the result of parse_sbom followed by analyze holds as many findings
\* as there are components, and every component is the component of exactly
\* one of them.  (Stated for documents whose components have distinct
\* bom_ref, where "the finding of a component" is unambiguous.)
C1_OneFindingPerComponent ==
    (Len(returned) = 1 /\ DistinctBomRefs(components)) =>
        LET vs == Findings(components, returned[1])
        IN  /\ Len(vs) = Len(components)
            /\ \A i \in DOMAIN components :
                   Cardinality({k \in DOMAIN vs :
                       vs[k].component_ref = components[i].bom_ref}) = 1

\* The result the last call of analyze returned, as read at its return.
Emitted == ResultView(components, returned[Len(returned)])

\* analyze has just returned a result.
AtReturn == pc = "done" /\ returned # <<>>

\* The priority the spec's rule gives a finding of a result: thresholds from
\* the percentiles of 10 * hdfm_score over the findings with a positive score.
SpecPriority(r, k) ==
    LET xs    == [i \in DOMAIN r.vulnerabilities |-> 10 * r.vulnerabilities[i].hdfm_score]
        R     == SelectSeq(xs, LAMBDA x : x > 0)
        crit  == IF R = <<>> THEN 90000 ELSE Max(Percentile(R, 90), 70000)
        high  == IF R = <<>> THEN 70000 ELSE Max(Percentile(R, 70), 40000)
        x     == xs[k]
    IN  IF x <= 0 THEN "LOW"
        ELSE IF x >= crit THEN "CRITICAL"
        ELSE IF x >= high THEN "HIGH"
        ELSE "MEDIUM"

\* C3: every finding of the result analyze returns has the priority that the
\* thresholds tau_crit = max(p90, 7.0), tau_high = max(p70, 4.0) give it, p90
\* and p70 being the percentiles of 10 * hdfm_score over the collapsed
\* findings with a positive score (9.0 and 7.0 when there is none).
C3_PercentileThresholds ==
    AtReturn =>
        \A k \in DOMAIN Emitted.vulnerabilities :
            Emitted.vulnerabilities[k].priority = SpecPriority(Emitted, k)

\* C4: a second analyze on the same components and dependencies, the ports
\* frozen, returns a result equal to the one the first returned: whoever
\* holds the two results reads the same findings, scores, priorities, totals
\* and entropy weights in both.  (Stated for documents whose components have
\* distinct bom_ref.)
C4_Idempotent ==
    (pc = "done" /\ Len(returned) >= 2 /\ DistinctBomRefs(components)) =>
        ResultView(components, returned[2]) = ResultView(components, returned[1])

\* C5: every finding of the result analyze returns has 0 <= hdfm_score <= 1.
C5_ScoreInUnitInterval ==
    AtReturn =>
        \A k \in DOMAIN Emitted.vulnerabilities :
            /\ 0 <= Emitted.vulnerabilities[k].hdfm_score
            /\ Emitted.vulnerabilities[k].hdfm_score <= Scale

\* C6: in the result analyze returns, and in the rows it saved of it,
\* critical_findings is the number of findings whose priority is CRITICAL.
C6_CriticalCount ==
    /\ AtReturn =>
           Emitted.critical_findings =
               Cardinality({k \in DOMAIN Emitted.vulnerabilities :
                               Emitted.vulnerabilities[k].priority = "CRITICAL"})
    /\ \A n \in DOMAIN saved :
           saved[n].result.critical_findings =
               Cardinality({k \in DOMAIN saved[n].result.vulnerabilities :
                               saved[n].result.vulnerabilities[k].priority = "CRITICAL"})

\* A result that counts a critical finding beside one that is not critical.
C6_Witness ==
    /\ AtReturn
    /\ Emitted.critical_findings >= 1
    /\ \E k \in DOMAIN Emitted.vulnerabilities :
           Emitted.vulnerabilities[k].priority \in {"HIGH", "MEDIUM"}

RuleA(v) == v.cvss_score >= 98000 /\ v.tcs >= 7000 /\ v.exploitability >= 5000

RuleB(v) == v.cvss_score >= 90000 /\ v.vei >= 8500 /\ v.tcs >= 5000

RuleC(v) == v.vei >= 8000 /\ v.tcs >= 4000

\* C8: once the raw scores are computed, every finding's hdfm_score is
\* min(base * multiplier, 1.0) for the multiplier of the first rule that
\* matches: A 1.5, else B 1.2, else C 1.0, else D 0.5.
C8_FirstMatchBranching ==
    pc = "collapse" =>
        \A k \in DOMAIN all_vulns :
            LET v    == Deref(components, all_vulns[k])
                base == BaseScore(v, weights)
                m10  == IF RuleA(v) THEN 15
                        ELSE IF RuleB(v) THEN 12
                        ELSE IF RuleC(v) THEN 10
                        ELSE 5
            IN  /\ Cardinality({r \in {"A", "B", "C", "D"} :
                       \/ r = "A" /\ RuleA(v)
                       \/ r = "B" /\ ~ RuleA(v) /\ RuleB(v)
                       \/ r = "C" /\ ~ RuleA(v) /\ ~ RuleB(v) /\ RuleC(v)
                       \/ r = "D" /\ ~ RuleA(v) /\ ~ RuleB(v) /\ ~ RuleC(v)}) = 1
                /\ v.hdfm_score = Min((base * m10) \div 10, Scale)

\* Findings scored under rules A, B and C in one analysis, the one under A
\* clipped to 1.0.
C8_Witness ==
    /\ pc = "collapse"
    /\ \E a, b, c \in DOMAIN all_vulns :
        LET va == Deref(components, all_vulns[a])
            vb == Deref(components, all_vulns[b])
            vc == Deref(components, all_vulns[c])
        IN  /\ RuleA(va) /\ (BaseScore(va, weights) * 15) \div 10 > Scale
            /\ ~ RuleA(vb) /\ RuleB(vb)
            /\ ~ RuleA(vc) /\ ~ RuleB(vc) /\ RuleC(vc)

\* The findings of scored_vulns with the component_name of the finding ref.
SameName(ref) ==
    {k \in DOMAIN scored_vulns :
        Deref(components, scored_vulns[k]).component_name
            = Deref(components, ref).component_name}

\* C9: after the collapse all_vulns holds, for every component_name among
\* the scored findings, exactly one finding: one with the highest
\* hdfm_score of that name, and the first-seen among those with that score.
C9_CollapseKeepsFirstHighest ==
    pc = "rank" =>
        /\ \A k \in DOMAIN scored_vulns :
               Cardinality({c \in DOMAIN all_vulns :
                   Deref(components, all_vulns[c]).component_name
                       = Deref(components, scored_vulns[k]).component_name}) = 1
        /\ \A c \in DOMAIN all_vulns :
               \E k \in SameName(all_vulns[c]) :
                   /\ scored_vulns[k] = all_vulns[c]
                   /\ \A j \in SameName(all_vulns[c]) :
                          LET kept  == Deref(components, scored_vulns[k])
                              other == Deref(components, scored_vulns[j])
                          IN  /\ other.hdfm_score <= kept.hdfm_score
                              /\ other.hdfm_score = kept.hdfm_score => k <= j

\* A collapse in which a name has several findings with its highest score
\* and another name's first finding is not its highest.
C9_Witness ==
    /\ pc = "rank"
    /\ \E j, k \in DOMAIN scored_vulns :
          /\ j < k
          /\ Deref(components, scored_vulns[j]).component_name
                 = Deref(components, scored_vulns[k]).component_name
          /\ Deref(components, scored_vulns[j]).hdfm_score
                 = Deref(components, scored_vulns[k]).hdfm_score
          /\ Deref(components, scored_vulns[j]).hdfm_score > 0
          /\ \E c \in DOMAIN all_vulns : all_vulns[c] = scored_vulns[j]
    /\ \E j, k \in DOMAIN scored_vulns :
          /\ j < k
          /\ Deref(components, scored_vulns[j]).component_name
                 = Deref(components, scored_vulns[k]).component_name
          /\ Deref(components, scored_vulns[j]).hdfm_score
                 < Deref(components, scored_vulns[k]).hdfm_score
          /\ \E c \in DOMAIN all_vulns : all_vulns[c] = scored_vulns[k]

\* The components that had no findings when analyze started.
Unaffected == {i \in DOMAIN start_components : start_components[i].vulnerabilities = <<>>}

\* C10: when analyze has returned, every component that had no findings
\* when it started has exactly one finding, the placeholder with id
\* DEPRECATED if the component is deprecated and HEALTHY otherwise, with
\* hdfm_score 0 and priority LOW; and so has each placeholder in the result.
C10_Placeholders ==
    AtReturn =>
        /\ \A i \in Unaffected :
               /\ Len(components[i].vulnerabilities) = 1
               /\ components[i].vulnerabilities[1].id =
                      (IF start_components[i].is_deprecated THEN "DEPRECATED" ELSE "HEALTHY")
               /\ components[i].vulnerabilities[1].hdfm_score = 0
               /\ components[i].vulnerabilities[1].priority = "LOW"
        /\ \A k \in DOMAIN Emitted.vulnerabilities :
               returned[Len(returned)].vulnerabilities[k][1] \in Unaffected =>
                   /\ Emitted.vulnerabilities[k].id \in {"DEPRECATED", "HEALTHY"}
                   /\ Emitted.vulnerabilities[k].hdfm_score = 0
                   /\ Emitted.vulnerabilities[k].priority = "LOW"

\* A result with the placeholder of a deprecated component beside a finding
\* that is not LOW.
C10_Witness ==
    /\ AtReturn
    /\ \E i \in Unaffected : start_components[i].is_deprecated
    /\ \E k \in DOMAIN Emitted.vulnerabilities :
           /\ returned[Len(returned)].vulnerabilities[k][1] \in Unaffected
           /\ Emitted.vulnerabilities[k].id = "DEPRECATED"
    /\ \E k \in DOMAIN Emitted.vulnerabilities :
           Emitted.vulnerabilities[k].priority # "LOW"

(***************************************************************************)
(* Properties of the de-duplication (specification SpecDedup)              *)
(***************************************************************************)

\* Two records share an id or an alias.
Shares(A, B) ==
    \/ A.id = B.id
    \/ A.id \in RangeOf(AliasesOf(B))
    \/ B.id \in RangeOf(AliasesOf(A))
    \/ RangeOf(AliasesOf(A)) \cap RangeOf(AliasesOf(B)) # {}

\* The places of osv_vulns reached from the places of S by at most n links.
RECURSIVE Chain(_, _)
Chain(S, n) ==
    IF n = 0 THEN S
    ELSE Chain(S \cup {j \in DOMAIN osv_vulns :
                          \E i \in S : Shares(osv_vulns[i], osv_vulns[j])}, n - 1)

\* The places of the records linked to the i-th, directly or through a chain.
ClassOf(i) == Chain({i}, Len(osv_vulns))

\* The groups that hold the i-th record of osv_vulns.
GroupsOf(i) == {g \in DOMAIN vuln_groups : i \in RangeOf(vuln_groups[g].idxs)}

\* C2: when _deduplicate_vulnerabilities returns, two records that share an
\* id or alias, directly or through a chain of records, are in the same group,
\* and there is one finding per class of linked records.
C2_DedupClosure ==
    dpc = "done" =>
        /\ \A i, j \in DOMAIN osv_vulns :
               j \in ClassOf(i) => GroupsOf(i) = GroupsOf(j)
        /\ Len(deduplicated) = Cardinality({ClassOf(i) : i \in DOMAIN osv_vulns})

IsCve(rec) == StartsWith(rec.id, "CVE-")

IsGhsa(rec) == StartsWith(rec.id, "GHSA-")

\* The place in a group of the representative the preference
\* CVE > GHSA > first-seen names, the first of its kind.
Preferred(g_vulns) ==
    LET kind == IF \E i \in DOMAIN g_vulns : IsCve(g_vulns[i]) THEN "CVE-"
                ELSE IF \E i \in DOMAIN g_vulns : IsGhsa(g_vulns[i]) THEN "GHSA-"
                ELSE ""
        of_kind == {i \in DOMAIN g_vulns : kind = "" \/ StartsWith(g_vulns[i].id, kind)}
    IN  CHOOSE i \in of_kind : \A j \in of_kind : i <= j

\* The CVE- aliases of a record, by place in its alias list.
CveAliases(rec) ==
    {a \in DOMAIN AliasesOf(rec) : StartsWith(AliasesOf(rec)[a], "CVE-")}

\* C7 as stated: the finding of every group carries the id of the group's
\* representative by the preference CVE > GHSA > first-seen.
C7_RepresentativeId ==
    dpc = "done" =>
        \A g \in DOMAIN vuln_groups :
            deduplicated[g].id = vuln_groups[g].vulns[Preferred(vuln_groups[g].vulns)].id

\* C7, amended: the finding of every group is made from the group's
\* representative by the preference CVE > GHSA > first-seen, and carries the
\* representative's first CVE- alias when it has one, its id otherwise.
C7_RepresentativeOrCveAlias ==
    dpc = "done" =>
        \A g \in DOMAIN vuln_groups :
            LET rep == vuln_groups[g].vulns[Preferred(vuln_groups[g].vulns)]
            IN  /\ CveAliases(rep) = {} => deduplicated[g].id = rep.id
                /\ CveAliases(rep) # {} =>
                       \E a \in CveAliases(rep) :
                           /\ \A b \in CveAliases(rep) : a <= b
                           /\ deduplicated[g].id = AliasesOf(rep)[a]

\* A group whose first-seen record is neither its CVE nor its GHSA record,
\* beside a group whose representative carries a CVE- alias that is not its id.
C7_Witness ==
    /\ dpc = "done"
    /\ \E g \in DOMAIN vuln_groups :
          /\ ~ IsCve(vuln_groups[g].vulns[1])
          /\ IsCve(vuln_groups[g].vulns[Preferred(vuln_groups[g].vulns)])
    /\ \E g \in DOMAIN vuln_groups :
          LET rep == vuln_groups[g].vulns[Preferred(vuln_groups[g].vulns)]
          IN  /\ IsGhsa(rep)
              /\ CveAliases(rep) # {}
              /\ deduplicated[g].id # rep.id


(***************************************************************************)
(* The KEV cache                                                           *)
(***************************************************************************)

\* The feed delivered a catalog: a JSON object with a "vulnerabilities" key.
DeliversCatalog(resp) == resp.kind = "json" /\ resp.is_object /\ resp.has_key

\* C11: a sync_data call whose refresh delivered no catalog (timeout, HTTP
\* failure, a body that is not JSON, JSON without a catalog) leaves kev_cache
\* equal to what it was when the call began; in particular the cache is not
\* emptied by it.
C11_FailedRefreshRetainsCache ==
    (sync_pc \in {"idle", "raised"} /\ sync_calls > 0
        /\ ~ DeliversCatalog(kev_response)) => kev_cache = kev_before

\* C12: every is_kev call tests membership in a complete catalog (the empty
\* set of __init__ or the full set of one response), and a call made while
\* sync_data is building the next set sees the set that was cached when
\* that sync_data began.
C12_ReadersSeeSnapshots ==
    \A n \in DOMAIN kev_reads :
        /\ kev_reads[n].seen \in kev_snapshots
        /\ kev_reads[n].at = "loop" => kev_reads[n].seen = kev_reads[n].old

\* An is_kev call ran in the middle of a build whose finished set differs
\* from the set under construction and from the cached one.
C12_Witness ==
    \E n \in DOMAIN kev_reads :
        /\ kev_reads[n].at = "loop"
        /\ kev_reads[n].i = 1
        /\ kev_reads[n].seen = {"CVE-1"}
        /\ sync_pc = "idle"
        /\ kev_cache = {"CVE-2"}


(***************************************************************************)
(* The OSV per-id cache                                                    *)
(***************************************************************************)

\* C13: the entry of an id is the record first stored for it (it is never
\* replaced by a different value), a call that found the id cached returned
\* that record, a failed call left no entry behind, and every call that
\* returned a record returned the one the cache holds for its id.
C13_WriteOncePerId ==
    /\ \A id \in DOMAIN osv_cache : osv_cache[id] = osv_first[id]
    /\ \A t \in DOMAIN lk :
        lk[t].pc = "returned" =>
            CASE lk[t].outcome \in {"hit", "stored"} ->
                    lk[t].ret = osv_first[lk[t].id]
              [] OTHER -> lk[t].ret = NoRecord


(***************************************************************************)
(* The ports during an analysis                                            *)
(***************************************************************************)

\* The EPSS service failed for the id: no usable score came back.
EpssFailed(id) == id \in DOMAIN epss_table /\ epss_table[id].kind # "ok"

\* C14: no analysis ends returning nothing, and in a returned result every
\* finding whose EPSS lookup failed (timeout, non-2xx, parse error) carries
\* the default epss = 0.
C14_PortFailureStillEmits ==
    /\ pc # "failed"
    /\ AtReturn =>
        \A n \in DOMAIN epss_calls :
            EpssFailed(Deref(components, epss_calls[n]).id) =>
                Deref(components, epss_calls[n]).epss = 0

Count(seq, x) == Cardinality({n \in DOMAIN seq : seq[n] = x})

\* The finding was made by this analysis for a component without findings.
CreatedPlaceholder(ref) == start_components[ref[1]].vulnerabilities = <<>>

SameFindings(refs1, refs2) ==
    Len(refs1) = Len(refs2) /\ RangeOf(refs1) = RangeOf(refs2)

\* C16: at each step of an analysis the earlier steps are complete and the
\* later ones have not begun.  When the weights are derived every finding is
\* enriched; when the raw scores are computed the weights and eta are those
\* of the complete enrichment and no finding is scored yet; when the
\* collapse starts every finding of the uncollapsed list has the raw score
\* of its enrichment under these weights and eta; when the thresholds are
\* computed the list is the collapse of the scored list, and the thresholds
\* that come out are those of the positive scores of the collapsed list only.
C16_PipelineOrder ==
    LET enriched  == CollectComponents(start_components, tcs_scores,
                                       epss_table, kev_cache)
        every     == CollectRefs(enriched, 1)
        Weighted  ==
            /\ weights = calculate_entropy_weights(MetricsDf(enriched, every))
            /\ eta = calculate_epss_median(
                         [k \in DOMAIN every |-> Deref(enriched, every[k]).epss])
        RawScore(ref) ==
            Min(Scale, calculate_hdfm_score(Deref(enriched, ref), weights, eta))
        Scored    ==
            \A k \in DOMAIN every :
                Deref(components, every[k]) =
                    [Deref(enriched, every[k]) EXCEPT !.hdfm_score = RawScore(every[k])]
        kept      == [k \in DOMAIN all_vulns |->
                         Deref(components, all_vulns[k]).hdfm_score]
    IN  /\ pc = "weights" => components = enriched /\ all_vulns = every
        /\ pc = "score" => components = enriched /\ all_vulns = every /\ Weighted
        /\ pc = "collapse" => Scored /\ all_vulns = every
        /\ pc = "rank" =>
                Scored /\ scored_vulns = every
                    /\ all_vulns = CollapseMap(components, every, <<>>)
                    /\ tau = [crit |-> 0, high |-> 0]
        /\ pc = "emit" =>
                /\ scored_vulns = every
                /\ SameFindings(all_vulns, CollapseMap(components, every, <<>>))
                /\ \A k \in DOMAIN every :
                    Deref(components, every[k]).hdfm_score = RawScore(every[k])
                /\ tau = Thresholds(SelectSeq(kept, LAMBDA x : x > 0))

\* An analysis reached the thresholds with a collapsed list shorter than
\* the scored one and findings of different positive scores.
C16_Witness ==
    /\ pc = "emit"
    /\ Len(all_vulns) < Len(scored_vulns)
    /\ Len(all_vulns) >= 2
    /\ \E k \in DOMAIN scored_vulns :
        /\ Deref(components, scored_vulns[k]).hdfm_score > 0
        /\ Deref(components, scored_vulns[k]).hdfm_score #
               Deref(components, scored_vulns[1]).hdfm_score


(***************************************************************************)
(* The emitted entropy weights                                             *)
(***************************************************************************)

\* The map has the four metrics, every weight lies in [0, 1] and the
\* weights sum to 1, each up to one unit of the last place per quotient.
SumsToOne(w) ==
    /\ DOMAIN w = RangeOf(MetricCols)
    /\ \A c \in DOMAIN w :
        0 - Len(MetricCols) <= w[c] /\ w[c] <= Scale + Len(MetricCols)
    /\ LET total == SumSeq([k \in DOMAIN MetricCols |-> w[MetricCols[k]]])
       IN  Scale - Len(MetricCols) <= total /\ total <= Scale + Len(MetricCols)

\* C17: the entropy_weights of every returned AnalysisResult sum to 1, each
\* in [0, 1], or are the uniform map; this includes the result of an
\* analysis without findings.
C17_WeightsSumToOne ==
    \A n \in DOMAIN returned :
        \/ returned[n].entropy_weights = UniformWeights
        \/ SumsToOne(returned[n].entropy_weights)


(***************************************************************************)
(* Ingestion                                                               *)
(***************************************************************************)

\* The bom-ref fields the SBOM declares are pairwise distinct.
DeclaredRefsDistinct(doc) ==
    \A i, j \in DOMAIN doc.components :
        (i # j /\ doc.components[i].bom_ref # Absent) =>
            doc.components[i].bom_ref # doc.components[j].bom_ref

\* C18: the components parse_sbom returned have pairwise distinct bom_ref
\* values, also where a bom_ref was taken from the purl or the name; stated
\* for the SBOMs whose own bom-ref fields are distinct.
C18_DistinctBomRefs ==
    (pc \notin {"idle", "parse", "invalid"} /\ DeclaredRefsDistinct(sbom)) =>
        DistinctBomRefs(components)


(***************************************************************************)
(* The fixtures                                                            *)
(***************************************************************************)

\* The first analysis of a healthy tree has returned.
S1Returned ==
    /\ AtReturn
    /\ Len(returned) = 1
    /\ \E scope \in {Absent, "required", "optional"} : sbom = S1(scope)

\* What the healthy tree yields apart from the hub count: ten findings,
\* each HEALTHY or DEPRECATED and LOW, no critical finding.
S1Findings ==
    /\ Len(Emitted.vulnerabilities) = Len(S1Refs)
    /\ Emitted.total_vulnerabilities = Len(S1Refs)
    /\ \A k \in DOMAIN Emitted.vulnerabilities :
        /\ Emitted.vulnerabilities[k].id \in {"HEALTHY", "DEPRECATED"}
        /\ Emitted.vulnerabilities[k].priority = "LOW"
    /\ Emitted.critical_findings = 0

\* C19 as stated: the healthy tree yields ten findings, each HEALTHY or
\* DEPRECATED and LOW, critical_findings = 0 and hub_components = 0.
C19_HealthyTree ==
    S1Returned => S1Findings /\ Emitted.hub_components = 0

\* C19 amended: the same, with hub_components = 10: each of the ten
\* components has in_degree 1 = D, hence tcs >= 0.75 > 0.7.
C19_HealthyTreeAllHubs ==
    S1Returned =>
        /\ S1Findings
        /\ Emitted.hub_components = Len(S1Refs)
        /\ \A k \in DOMAIN S1Refs : tcs_scores[S1Refs[k]] > 7000

\* The first analysis of a healthy tree with one deprecated component has
\* returned.
C19_Witness ==
    /\ S1Returned
    /\ \E k \in DOMAIN Emitted.vulnerabilities :
        Emitted.vulnerabilities[k].id = "DEPRECATED"
    /\ \E k \in DOMAIN Emitted.vulnerabilities :
        Emitted.vulnerabilities[k].id = "HEALTHY"

\* scope_priority as a function of the scope the SBOM declares.
DeclaredScopePriority(scope) ==
    IF scope = "required" THEN Scale
    ELSE IF scope = "optional" THEN Scale \div 2
    ELSE (6 * Scale) \div 10

\* The priority the last result gives the finding of the component.
PriorityIn(comp_name) ==
    {Emitted.vulnerabilities[k].priority :
        k \in {n \in DOMAIN Emitted.vulnerabilities :
                  Emitted.vulnerabilities[n].component_name = comp_name}}

\* C20: once tcs_scores is computed, every component of the SBOM has
\* tcs = (in_degree/D + scope_priority)/2 with the scope_priority of the
\* scope it was declared with (required 1.0, optional 0.5, otherwise 0.6);
\* and the first result for the hidden-test-dependency fixture ranks
\* requests HIGH or CRITICAL and vm2 MEDIUM or LOW.
C20_ScopeReachesTcs ==
    /\ pc \in {"weights", "score", "collapse", "rank", "emit", "done"} =>
        \A k \in DOMAIN sbom.components :
            LET ref == BomRefOf(sbom.components[k])
                D   == IF Targets(sbom.dependencies) = {} THEN 1
                       ELSE SetMax({InDegree(sbom.dependencies, t) :
                                       t \in Targets(sbom.dependencies)})
            IN  tcs_scores[ref] =
                    ((InDegree(sbom.dependencies, ref) * Scale) \div D
                        + DeclaredScopePriority(sbom.components[k].scope)) \div 2
    /\ (AtReturn /\ Len(returned) = 1 /\ sbom = S3) =>
        /\ PriorityIn("requests") \subseteq {"HIGH", "CRITICAL"}
        /\ PriorityIn("vm2") \subseteq {"MEDIUM", "LOW"}

\* The first analysis of the deep-real-CVE fixture has returned, with OSV
\* reporting CVE-2022-28346 for django, EPSS 0.97 and the id in the KEV
\* catalog.
S2Returned ==
    /\ AtReturn
    /\ Len(returned) = 1
    /\ sbom = S2
    /\ osv_results = S2Osv
    /\ epss_table = S2Epss
    /\ kev_cache = S2Kev

\* The findings the last result holds for django.
DjangoFindings ==
    {Emitted.vulnerabilities[k] :
        k \in {n \in DOMAIN Emitted.vulnerabilities :
                  Emitted.vulnerabilities[n].component_name = "django"}}

\* What the claim and the code agree on for the django finding: it is
\* CVE-2022-28346 with vei = 0.85, E within 0.001 of 1.0, score >= 0.7 and
\* priority CRITICAL.
S2Agreed(v) ==
    /\ v.id = "CVE-2022-28346"
    /\ v.vei = 8500
    /\ v.exploitability >= Scale - 10 /\ v.exploitability <= Scale
    /\ v.hdfm_score >= 7000
    /\ v.priority = "CRITICAL"

\* C21 as stated: in the deep-real-CVE fixture the django finding has
\* vei = 0.85, E about 1.0 and tcs about 0.55, so that rule A does not
\* apply and rule B is the one it matches; its score is at least 0.7 and its
\* priority CRITICAL.
C21_DeepRealCve ==
    S2Returned =>
        /\ DjangoFindings # {}
        /\ \A v \in DjangoFindings :
            /\ S2Agreed(v)
            /\ v.tcs >= 5400 /\ v.tcs <= 5600
            /\ ~ RuleA(v) /\ RuleB(v)

\* C21 amended: the django finding has vei = 0.85, E = 1.0 and tcs = 0.8
\* (every component is named by exactly one dependency record, so django's
\* in_degree 1 is the maximum), rule A applies with multiplier 1.5, and the
\* score clipped to 1.0 makes it the one CRITICAL finding.
C21_DeepRealCveRuleA ==
    S2Returned =>
        /\ Cardinality(DjangoFindings) = 1
        /\ \A v \in DjangoFindings :
            /\ S2Agreed(v)
            /\ v.exploitability = Scale
            /\ v.tcs = 8000
            /\ RuleA(v) /\ Branch(v) = "A"
            /\ v.hdfm_score = Min(Scale, (BaseScore(v, Emitted.entropy_weights) * 15) \div 10)
        /\ Emitted.critical_findings = 1
        /\ Emitted.total_vulnerabilities = Len(sbom.components)

\* The first analysis of the deep-real-CVE fixture with all three sources
\* has returned and holds a finding for django among the thirteen.
C21_Witness ==
    /\ S2Returned
    /\ DjangoFindings # {}
    /\ Len(Emitted.vulnerabilities) = 13

(***************************************************************************)
(* Properties of batch_lookup_by_purl (specification SpecBatch)            *)
(***************************************************************************)

\* The map a call returns for the queries when /querybatch gives the
\* answers `responses`, from chunk c on.
RECURSIVE BatchFold(_, _, _, _, _, _)
BatchFold(queries, responses, c, acc, cache, full) ==
    IF c > Len(responses) THEN acc
    ELSE IF ChunkFailed(responses[c])
    THEN BatchFold(queries, responses, c + 1, acc, cache, full)
    ELSE LET done == ProcessResults(responses[c].results, 1, (c - 1) * chunk_size,
                                    queries, acc, cache, full)
         IN  BatchFold(queries, responses, c + 1, done.all_results, done.cache, full)

\* The findings a map holds for a bom_ref, none when the key is missing.
EntryOf(map, ref) == IF ref \in DOMAIN map THEN map[ref] ELSE <<>>

\* The places in queries of the c-th chunk.
PlacesOf(queries, c) ==
    {q \in DOMAIN queries : (q - 1) \div chunk_size = c - 1}

\* For every chunk whose request failed: the returned map holds nothing for
\* the components of the chunk, and for the components of the other chunks
\* it holds what it would hold had the chunk been answered with status 200,
\* whatever the answer.
FailedChunksSkipped ==
    LET queries == Queries(b_components)
    IN  \A c \in DOMAIN chunk_responses :
            ChunkFailed(chunk_responses[c]) =>
                /\ \A q \in PlacesOf(queries, c) :
                    queries[q].bom_ref \notin DOMAIN all_results
                /\ \A r \in [1 .. Len(ChunkOf(queries, c)) -> QueryResults \ {QueryResult(FALSE, <<>>)}] :
                    LET would == BatchFold(queries,
                                     [chunk_responses EXCEPT ![c] = ChunkResponse("ok", r)],
                                     1, EmptyDict, EmptyDict, osv_full)
                    IN  \A q \in DOMAIN queries \ PlacesOf(queries, c) :
                            EntryOf(all_results, queries[q].bom_ref)
                                = EntryOf(would, queries[q].bom_ref)

\* C22: when batch_lookup_by_purl has returned and the request of a chunk
\* had failed (exception or status other than 200), the components of that
\* chunk have no findings in the returned map and the components of every
\* other chunk have exactly the findings they would have had no chunk
\* failed.
C22_FailedChunkSkipped ==
    bpc = "returned" => FailedChunksSkipped

\* The same for calls in which no two queried components share a bom_ref.
C22_FailedChunkSkippedDistinctRefs ==
    (bpc = "returned" /\ DistinctBomRefs(Queries(b_components)))
        => FailedChunksSkipped

(***************************************************************************)
(* Properties of parse_sbom (specification Spec)                           *)
(***************************************************************************)

\* C23: when parse_sbom has returned, the findings of every component are
\* its inline findings, unchanged and in their order, followed by exactly
\* the OSV findings offered for its bom_ref whose id no inline finding of the
\* component has, in the order OSV offered them.
C23_InlineWins ==
    pc = "parsed" =>
        LET parsed == ParseComponents(sbom.components)
        IN  /\ Len(components) = Len(parsed)
            /\ \A i \in DOMAIN parsed :
                LET inline     == parsed[i].vulnerabilities
                    merged     == components[i].vulnerabilities
                    offered    == EntryOf(osv_results, parsed[i].bom_ref)
                    inline_ids == {inline[j].id : j \in DOMAIN inline}
                    fresh(v)   == v.id \notin inline_ids
                IN  /\ Len(merged) >= Len(inline)
                    /\ SubSeq(merged, 1, Len(inline)) = inline
                    /\ SubSeq(merged, Len(inline) + 1, Len(merged))
                           = SelectSeq(offered, fresh)

\* parse_sbom has returned a component with an inline finding whose id OSV
\* offers too, and with an OSV finding appended after its inline ones.
C23_Witness ==
    /\ pc = "parsed"
    /\ \E i \in DOMAIN components :
        LET inline  == ParseComponents(sbom.components)[i].vulnerabilities
            merged  == components[i].vulnerabilities
            offered == EntryOf(osv_results, components[i].bom_ref)
        IN  /\ \E j \in DOMAIN inline, k \in DOMAIN offered :
                inline[j].id = offered[k].id /\ inline[j] # offered[k]
            /\ Len(merged) > Len(inline)
            /\ inline # <<>>

\* C24: parse_sbom raises InvalidSBOMException exactly for the documents
\* whose components array is absent or empty, and when it has raised, neither
\* the vulnerability-lookup nor the metadata port has been called and no
\* components or dependencies have been returned.
C24_InvalidSbomRaisedFirst ==
    /\ (pc # "parse" /\ (~ sbom.has_components \/ sbom.components = <<>>))
        => pc = "invalid"
    /\ pc = "invalid" =>
        /\ ~ sbom.has_components \/ sbom.components = <<>>
        /\ port_calls = <<>>
        /\ components = <<>>
        /\ dependencies = <<>>
        /\ returned = <<>>

\* parse_sbom has raised on a document with an empty components array and a
\* dependencies array that is not empty, with ports that have data to give.
C24_Witness ==
    /\ pc = "invalid"
    /\ sbom.has_components
    /\ sbom.dependencies # <<>>
    /\ osv_results # EmptyDict
    /\ metadata_map # EmptyDict

(***************************************************************************)
(* Properties of calculate_max_depth (specification SpecDepth)             *)
(***************************************************************************)

\* There is a path of exactly k edges from node r to node n.
PathOfLength(E, r, n, k) ==
    \E p \in [1 .. k + 1 -> Nodes(E)] :
        /\ p[1] = r
        /\ p[k + 1] = n
        /\ \A i \in 1 .. k : <<p[i], p[i + 1]>> \in E

\* The nodes reachable from r, r itself included.
ReachableFrom(E, r) ==
    {n \in Nodes(E) : \E k \in 0 .. Cardinality(Nodes(E)) - 1 : PathOfLength(E, r, n, k)}

\* The shortest-path length from r to a node reachable from it.
ShortestPathLength(E, r, n) ==
    CHOOSE k \in 0 .. Cardinality(Nodes(E)) - 1 :
        /\ PathOfLength(E, r, n, k)
        /\ \A j \in 0 .. k - 1 : ~ PathOfLength(E, r, n, j)

\* The zero-in-degree nodes, by counting the edges into each node.
ZeroInDegree(E) == {n \in Nodes(E) : Cardinality({e \in E : e[2] = n}) = 0}

\* The edges of the dependency list: r -> t when some record of r names t.
EdgeList(deps) ==
    {e \in DepNodes \X DepNodes :
        \E i \in DOMAIN deps :
            /\ deps[i].ref = e[1]
            /\ \E j \in DOMAIN deps[i].dependsOn : deps[i].dependsOn[j] = e[2]}

\* C25: calculate_max_depth returns the largest shortest-path length from
\* any zero-in-degree root to any node reachable from it, and 0 when the
\* graph has no edges or no root.
C25_MaxDepth ==
    depth_pc = "returned" =>
        LET E     == EdgeList(depth_deps)
            roots == ZeroInDegree(E)
        IN  IF E = {} \/ roots = {} THEN depth_out = 0
            ELSE /\ \A r \in roots : \A n \in ReachableFrom(E, r) :
                        ShortestPathLength(E, r, n) <= depth_out
                 /\ \E r \in roots : \E n \in ReachableFrom(E, r) :
                        ShortestPathLength(E, r, n) = depth_out

\* calculate_max_depth has returned 1 for a graph in which the node farthest
\* from the root by the longest path, two edges away, is one edge away by
\* the shortest.
C25_Witness ==
    /\ depth_pc = "returned"
    /\ EdgeList(depth_deps) = {<<"a", "b">>, <<"a", "c">>, <<"b", "c">>}
    /\ depth_out = 1

\* The results handed to save_analysis for sbom_id in the first at calls.
SavedFor(sbom_id, at) ==
    LET mine == SelectSeq(SubSeq(repo_saved, 1, at), LAMBDA s : s.sbom_id = sbom_id)
    IN  [k \in DOMAIN mine |-> mine[k].result]

\* out holds the elements of expected, each as often as expected does.
SameElements(out, expected) ==
    /\ Len(out) = Len(expected)
    /\ \E o \in [DOMAIN out -> DOMAIN expected] :
        /\ \A i, j \in DOMAIN out : o[i] = o[j] => i = j
        /\ \A i \in DOMAIN out : out[i] = expected[o[i]]

\* C26: get_all_analyses(sbom_id) returns exactly the analyses saved for that
\* sbom_id so far, each once, ordered by timestamp descending, no analysis of
\* another sbom_id among them; get_latest_analysis(sbom_id) returns a saved
\* analysis of that sbom_id with the greatest timestamp, and nothing when none
\* was saved for it.
C26_PersistenceOrdering ==
    LET expected == SavedFor(repo_read.sbom_id, repo_read.at)
        out == repo_read.out
    IN  /\ repo_read.op = "get_all_analyses" =>
            /\ SameElements(out, expected)
            /\ \A i, j \in DOMAIN out : i < j => out[i].timestamp >= out[j].timestamp
            /\ \A i \in DOMAIN out : out[i].sbom_id = repo_read.sbom_id
        /\ repo_read.op = "get_latest_analysis" =>
            IF expected = <<>> THEN out = <<>>
            ELSE /\ Len(out) = 1
                 /\ \E k \in DOMAIN expected : out[1] = expected[k]
                 /\ \A k \in DOMAIN expected : out[1].timestamp >= expected[k].timestamp
                 /\ out[1].sbom_id = repo_read.sbom_id

\* Three analyses were saved, two of one sbom_id at different times and one of
\* the other, one of them with findings, and the two were read back.
C26_Witness ==
    /\ repo_read.op = "get_all_analyses"
    /\ repo_read.at = 3
    /\ Len(repo_read.out) = 2
    /\ repo_read.out[1].timestamp > repo_read.out[2].timestamp
    /\ repo_read.out[2].vulnerabilities # <<>>
    /\ \E k \in DOMAIN repo_saved : repo_saved[k].sbom_id # repo_read.sbom_id


\* C27: the findings _deduplicate_vulnerabilities returns for one component
\* have pairwise distinct ids.
C27_DistinctFindingIds ==
    dpc = "done" =>
        \A g, h \in DOMAIN deduplicated :
            deduplicated[g].id = deduplicated[h].id => g = h


(***************************************************************************)
(* Properties of the ranking, the order and the saving                     *)
(***************************************************************************)

\* The place of a priority in the order LOW < MEDIUM < HIGH < CRITICAL.
PriorityRank(priority) ==
    CASE priority = "CRITICAL" -> 3
      [] priority = "HIGH" -> 2
      [] priority = "MEDIUM" -> 1
      [] OTHER -> 0

FirstSeen(component_name) ==
    LET of_name == {k \in DOMAIN scored_vulns :
                       Deref(components, scored_vulns[k]).component_name = component_name}
    IN  CHOOSE k \in of_name : \A l \in of_name : k <= l

\* C29: the vulnerabilities list of the result analyze returns is ordered by
\* hdfm_score non-increasing, findings with equal scores stand in the order in
\* which their components were first seen, and total_vulnerabilities is the
\* length of the list.
C29_SortedStable ==
    AtReturn =>
        LET vs == Emitted.vulnerabilities
        IN  /\ \A i, j \in DOMAIN vs :
                   i < j =>
                       /\ vs[i].hdfm_score >= vs[j].hdfm_score
                       /\ vs[i].hdfm_score = vs[j].hdfm_score =>
                              FirstSeen(vs[i].component_name) < FirstSeen(vs[j].component_name)
            /\ Emitted.total_vulnerabilities = Len(vs)

\* A result with two findings of one score above 0.
C29_Witness ==
    /\ AtReturn
    /\ Len(Emitted.vulnerabilities) = 2
    /\ Emitted.vulnerabilities[1].hdfm_score = Emitted.vulnerabilities[2].hdfm_score
    /\ Emitted.vulnerabilities[1].hdfm_score > 0


\* The call of save_analysis was made for this returned result: the same
\* sbom_id, in the call and in the result, the same counts and weights, and
\* as many findings.
SavedThis(call, result) ==
    /\ call.sbom_id = result.sbom_id
    /\ call.result.sbom_id = result.sbom_id
    /\ call.result.total_components = result.total_components
    /\ call.result.total_vulnerabilities = result.total_vulnerabilities
    /\ call.result.hub_components = result.hub_components
    /\ call.result.max_depth = result.max_depth
    /\ call.result.entropy_weights = result.entropy_weights
    /\ Len(call.result.vulnerabilities) = Len(result.vulnerabilities)

====
